---- MODULE Spec2Model ----
(***************************************************************************)
(* FastCRM authentication and session-token core.                          *)
(*                                                                         *)
(* The persistent store (users, refresh_tokens, oauth2_clients) is the     *)
(* shared state.  Every HTTP handler is one action, except the refresh     *)
(* handler, which is split at its database round trips so that requests    *)
(* served by different workers interleave as they do on the store.        *)
(* `last` is the request/response pair of the step just taken.             *)
(***************************************************************************)
EXTENDS Integers, FiniteSets, Sequences, TLC

VARIABLES users, clients, tokens, nextUserId, nextTok, minted, now, rq, hist, last,
          SECRET_KEY, customers, notes

vars == <<users, clients, tokens, nextUserId, nextTok, minted, now, rq, hist, last,
         SECRET_KEY, customers, notes>>

----------------------------------------------------------------------------
(* Bounds of the model *)

MaxUsers == 2
MaxTokens == 3
MaxInflight == 2
MaxTime == 31
MaxCustomers == 2
MaxNotes == 1

(* Program constants *)

ACCESS_TOKEN_EXPIRE_MINUTES == 60
REFRESH_TOKEN_EXPIRE_DAYS == 30
MaxDeviceChars == 100
MaxPasswordBytes == 72
MinPasswordChars == 8
MinSecretChars == 32

----------------------------------------------------------------------------
(* Value domains *)

None == 0

(* a timestamp column that is NULL *)
Never == 0 - 1

BASIC_USER == "basic_user"
PREMIUM_USER == "premium_user"
ADMIN == "admin"

UserRole == {BASIC_USER, PREMIUM_USER, ADMIN}

Emails == {"a@x.com", "b@x.com"}

AdminEmail == "a@x.com"

(* plaintext passwords, each with its character count and UTF-8 byte count *)
Passwords == {"password123", "hunter2hunter2", "short", "long73bytes"}

(* further inputs of the hasher: lengths at the limits, multi-byte        *)
(* characters (an emoji is 4 bytes, an umlaut 2), and a NUL character      *)
PasswordInputs ==
    Passwords \cup {"long72bytes", "exactly8", "seven77", "emoji-x4", "emoji-x18",
                    "emoji-x19", "umlaut-x8", "umlaut-x7", "nul-inside",
                    "correct horse battery", "Tr0ub4dor&3"}

PwChars(p) ==
    CASE p = "password123" -> 11
      [] p = "hunter2hunter2" -> 14
      [] p = "short" -> 5
      [] p = "long73bytes" -> 73
      [] p = "long72bytes" -> 72
      [] p = "exactly8" -> 8
      [] p = "seven77" -> 7
      [] p = "emoji-x4" -> 4
      [] p = "emoji-x18" -> 18
      [] p = "emoji-x19" -> 19
      [] p = "umlaut-x8" -> 8
      [] p = "umlaut-x7" -> 7
      [] p = "nul-inside" -> 10
      [] p = "correct horse battery" -> 21
      [] p = "Tr0ub4dor&3" -> 11

PwBytes(p) ==
    CASE p = "password123" -> 11
      [] p = "hunter2hunter2" -> 14
      [] p = "short" -> 5
      [] p = "long73bytes" -> 73
      [] p = "long72bytes" -> 72
      [] p = "exactly8" -> 8
      [] p = "seven77" -> 7
      [] p = "emoji-x4" -> 16
      [] p = "emoji-x18" -> 72
      [] p = "emoji-x19" -> 76
      [] p = "umlaut-x8" -> 16
      [] p = "umlaut-x7" -> 14
      [] p = "nul-inside" -> 10
      [] p = "correct horse battery" -> 21
      [] p = "Tr0ub4dor&3" -> 11

(* bcrypt takes no NUL byte: passlib raises on such a password *)
HasNul(p) == p = "nul-inside"

(* the first MaxPasswordBytes bytes of a password *)
First72(p) ==
    CASE p = "long73bytes" -> "long72bytes"
      [] p = "emoji-x19" -> "emoji-x18"
      [] OTHER -> p

AdminPassword == "password123"

Devices == {"ua-1"}

(* the User-Agent header of a request: absent, or a string of some length *)
NoUserAgent == "<no user-agent>"

UserAgents == {"ua-1", "ua-2", "ua-long-101", NoUserAgent}

UaChars(ua) ==
    CASE ua = "ua-long-101" -> 101
      [] ua = "ua-long-100" -> 100
      [] OTHER -> 4

(* the first MaxDeviceChars characters of a header value *)
Truncated(ua) ==
    IF UaChars(ua) <= MaxDeviceChars THEN ua
    ELSE CASE ua = "ua-long-101" -> "ua-long-100"

(* request.headers.get('user-agent', 'Unknown Device')[:100] *)
device_descriptor(user_agent) ==
    IF user_agent = NoUserAgent THEN "Unknown Device" ELSE Truncated(user_agent)

(* a device_info column that is NULL *)
NoDevice == ""

(* the is_active column is a string; only "true" means active *)
ActiveStrings == {"true", "false", "False"}

Unset == "<unset>"

Slots == 1..MaxInflight

TokenStrings == 1..MaxTokens

(* the clock moves to instants at which a 30-day expiry is met or passed *)
Jumps == {REFRESH_TOKEN_EXPIRE_DAYS, REFRESH_TOKEN_EXPIRE_DAYS + 1}

----------------------------------------------------------------------------
(* auth.py *)

(* bcrypt is salted and one-way: a hash is matched only by its own password *)
ValidPassword(password) ==
    /\ PwBytes(password) <= MaxPasswordBytes
    /\ PwChars(password) >= MinPasswordChars

(* the message of the ValueError get_password_hash raises, "" when it     *)
(* returns a hash                                                          *)
get_password_hash_error(password) ==
    IF PwBytes(password) > MaxPasswordBytes
    THEN "Password too long (max 72 characters)"
    ELSE IF PwChars(password) < MinPasswordChars
    THEN "Password too short (min 8 characters)"
    ELSE IF HasNul(password)
    THEN "Password hashing failed - please try again"
    ELSE ""

get_password_hash(password) == <<"bcrypt", password>>

verify_password_below72(plain_password, hashed_password) ==
    IF PwBytes(plain_password) >= MaxPasswordBytes
    THEN FALSE
    ELSE hashed_password = <<"bcrypt", plain_password>>

verify_password_truncating(plain_password, hashed_password) ==
    hashed_password = <<"bcrypt", First72(plain_password)>>

verify_password(plain_password, hashed_password) ==
    IF PwBytes(plain_password) > MaxPasswordBytes
    THEN FALSE
    ELSE IF HasNul(plain_password)
    THEN FALSE
    ELSE hashed_password = <<"bcrypt", plain_password>>

(* the signing secret: the value of CRM_SECRET_KEY in the environment or  *)
(* in the .env file, each absent (or empty) or a string of some length     *)
NoKey == "<no key>"

Placeholder == "change_this_secret_in_prod"

EnvValues == {NoKey, Placeholder, "key-of-31-chars", "key-of-32-chars", "key-of-64-chars"}

KeyChars(key) ==
    CASE key = Placeholder -> 26
      [] key = "key-of-31-chars" -> 31
      [] key = "key-of-32-chars" -> 32
      [] key = "key-of-64-chars" -> 64
      [] OTHER -> 0

(* SECRET_KEY of a process that has not imported auth.py *)
NotStarted == "<not started>"

(* the secret of the running service *)
ServingKey == "key-of-32-chars"

(* lines 14-29: the environment first, then the .env file *)
load_secret_key(env, dotenv) == IF env # NoKey THEN env ELSE dotenv

secret_key_error_no_length(key) ==
    IF key = NoKey
    THEN "CRM_SECRET_KEY environment variable must be set for security"
    ELSE IF key = Placeholder
    THEN "SECRET_KEY must be changed from default value for security"
    ELSE ""

(* lines 31-36: the message of the ValueError raised at import, "" when   *)
(* the import goes on                                                      *)
secret_key_error(key) ==
    IF key = NoKey
    THEN "CRM_SECRET_KEY environment variable must be set for security"
    ELSE IF KeyChars(key) < MinSecretChars
    THEN "SECRET_KEY must be at least 32 characters long for security"
    ELSE IF key = Placeholder
    THEN "SECRET_KEY must be changed from default value for security"
    ELSE ""

get_refresh_token_expire_time_epoch == REFRESH_TOKEN_EXPIRE_DAYS

get_refresh_token_expire_time == now + REFRESH_TOKEN_EXPIRE_DAYS

create_refresh_token_reused == IF nextTok > 1 THEN nextTok - 1 ELSE nextTok

(* secrets.token_urlsafe(32): a string never issued before *)
create_refresh_token == nextTok

(* a signed JWT carrying the subject; it decodes until it expires *)
create_access_token(sub) == [kind |-> "valid", sub |-> sub]

(* the same, with the clock made explicit: t is utcnow() in whole seconds, *)
(* the unit of the exp claim                                               *)
create_access_token_at(sub, t) ==
    [kind |-> "valid", sub |-> sub, exp |-> t + ACCESS_TOKEN_EXPIRE_MINUTES * 60]

(* jwt.decode of a token this server signed, at instant t: it raises       *)
(* ExpiredSignatureError, a JWTError, when exp < now                       *)
decode_access_token_at(token, t) ==
    IF token.kind = "valid" /\ ~(token.exp < t)
    THEN [ok |-> TRUE, sub |-> token.sub]
    ELSE [ok |-> FALSE, sub |-> 0]

create_token_pair(user_id) ==
    [access_token |-> create_access_token(user_id),
     refresh_token |-> create_refresh_token,
     token_type |-> "bearer",
     expires_in |-> ACCESS_TOKEN_EXPIRE_MINUTES * 60]

----------------------------------------------------------------------------
(* dependencies.py: store helpers, as functions of the table they read *)

get_user_by_email(us, email) ==
    IF \E u \in DOMAIN us : us[u].email = email
    THEN CHOOSE u \in DOMAIN us : us[u].email = email
    ELSE None

get_user(us, user_id) == IF user_id \in DOMAIN us THEN user_id ELSE None

authenticate_user(us, email, password) ==
    LET user == get_user_by_email(us, email) IN
    IF user = None THEN None
    ELSE IF ~verify_password(password, us[user].hashed_password) THEN None
    ELSE user

NewTokenRow(user_id, refresh_token, device_info) ==
    [token |-> refresh_token, user_id |-> user_id,
     expires_at |-> get_refresh_token_expire_time,
     is_active |-> "true", last_used_at |-> Never, device_info |-> device_info]

create_refresh_token_db_single(toks, user_id, refresh_token, device_info) ==
    [id \in {i \in DOMAIN toks : toks[i].user_id # user_id} |-> toks[id]]
        @@ (refresh_token :> NewTokenRow(user_id, refresh_token, device_info))

create_refresh_token_db(toks, user_id, refresh_token, device_info) ==
    toks @@ (refresh_token :> NewTokenRow(user_id, refresh_token, device_info))

get_refresh_token_db(toks, refresh_token) ==
    IF \E id \in DOMAIN toks :
          toks[id].token = refresh_token /\ toks[id].is_active = "true"
    THEN CHOOSE id \in DOMAIN toks :
          toks[id].token = refresh_token /\ toks[id].is_active = "true"
    ELSE None

invalidate_refresh_token_noop(toks, refresh_token) == toks

invalidate_refresh_token_delete(toks, refresh_token) ==
    [id \in {i \in DOMAIN toks : toks[i].token # refresh_token} |-> toks[id]]

invalidate_refresh_token_toggle(toks, refresh_token) ==
    [id \in DOMAIN toks |->
        IF toks[id].token = refresh_token
        THEN [toks[id] EXCEPT !.is_active = IF @ = "true" THEN "false" ELSE "true"]
        ELSE toks[id]]

invalidate_refresh_token(toks, refresh_token) ==
    LET db_token == get_refresh_token_db(toks, refresh_token) IN
    IF db_token # None
    THEN [toks EXCEPT ![db_token].is_active = "false"]
    ELSE toks

ExpiredIdsActive(toks) ==
    {id \in DOMAIN toks : toks[id].expires_at < now /\ toks[id].is_active = "true"}

ExpiredIds(toks) == {id \in DOMAIN toks : toks[id].expires_at < now}

(* a sweep that removes nothing *)
cleanup_expired_tokens_skipped(toks) == toks

cleanup_expired_tokens(toks) ==
    [id \in DOMAIN toks \ ExpiredIds(toks) |-> toks[id]]

role_hierarchy(role) ==
    CASE role = BASIC_USER -> 1
      [] role = PREMIUM_USER -> 2
      [] role = ADMIN -> 3
      [] OTHER -> 0

check_user_permissions_strict(role, required_role) ==
    role_hierarchy(role) > role_hierarchy(required_role)

check_user_permissions(role, required_role) ==
    role_hierarchy(role) >= role_hierarchy(required_role)

----------------------------------------------------------------------------
(* Bearer tokens.  An access token is not stored: it is either one the    *)
(* server signed for a subject and that has not expired yet, or anything  *)
(* else (expired, malformed, wrong signature), which decodes to nothing.  *)

BadBearer == [kind |-> "bad", sub |-> None]

Bearers == {BadBearer} \cup {[kind |-> "valid", sub |-> u] : u \in minted}

(* the payload of a token that does not decode (jwt.decode raised JWTError) *)
NoPayload == [ok |-> FALSE, sub |-> None]

decode_access_token_unverified(token) == [ok |-> TRUE, sub |-> token.sub]

decode_access_token(token) ==
    IF token.kind = "valid" THEN [ok |-> TRUE, sub |-> token.sub] ELSE NoPayload

(* what a caller can put in the Authorization header: a token the server  *)
(* signed that is still valid, one it signed whose expiry has passed, one  *)
(* signed with another key, a string that is no JWT, and a signed token    *)
(* without a subject                                                       *)
WireTokens ==
    Bearers
      \cup {[kind |-> k, sub |-> u] : k \in {"expired", "bad_signature"}, u \in 1..MaxUsers}
      \cup {[kind |-> "malformed", sub |-> None], [kind |-> "valid", sub |-> None]}

Denied(code, text) == [ok |-> FALSE, user |-> None, status |-> code, detail |-> text]

Granted(user) == [ok |-> TRUE, user |-> user, status |-> 200, detail |-> ""]

(* a guard that would tie the access token to a live session *)
get_current_user_with_session(token) ==
    LET payload == decode_access_token(token) IN
    IF ~payload.ok THEN Denied(401, "Invalid authentication credentials")
    ELSE IF payload.sub = None THEN Denied(401, "Invalid token payload")
    ELSE IF get_user(users, payload.sub) = None THEN Denied(401, "User not found")
    ELSE IF \A id \in DOMAIN tokens : ~(/\ tokens[id].user_id = payload.sub
                                        /\ tokens[id].is_active = "true")
    THEN Denied(401, "Invalid authentication credentials")
    ELSE Granted(payload.sub)

get_current_user(token) ==
    LET payload == decode_access_token(token) IN
    IF ~payload.ok THEN Denied(401, "Invalid authentication credentials")
    ELSE IF payload.sub = None THEN Denied(401, "Invalid token payload")
    ELSE IF get_user(users, payload.sub) = None THEN Denied(401, "User not found")
    ELSE Granted(payload.sub)

get_admin_user_any_role(token) == get_current_user(token)

get_admin_user(token) ==
    LET cur == get_current_user(token) IN
    IF ~cur.ok THEN cur
    ELSE IF users[cur.user].role # ADMIN THEN Denied(403, "Admin privileges required")
    ELSE cur

get_premium_user_any_role(token) == get_current_user(token)

get_premium_user(token) ==
    LET cur == get_current_user(token) IN
    IF ~cur.ok THEN cur
    ELSE IF users[cur.user].role \notin {PREMIUM_USER, ADMIN}
    THEN Denied(403, "Premium user privileges required")
    ELSE cur

get_active_user(token) ==
    LET cur == get_current_user(token) IN
    IF ~cur.ok THEN cur
    ELSE IF users[cur.user].is_active # "true" THEN Denied(403, "Account is inactive")
    ELSE cur

(* the bearer dependency of the client-credentials flow *)
get_current_user_oauth2(token) ==
    LET payload == decode_access_token(token) IN
    IF ~payload.ok THEN Denied(401, "Invalid token")
    ELSE IF payload.sub = None THEN Denied(401, "Invalid token")
    ELSE IF get_user(users, payload.sub) = None THEN Denied(401, "User not found")
    ELSE IF users[payload.sub].is_active # "true" THEN Denied(401, "Inactive user")
    ELSE Granted(payload.sub)

(* the dependencies a route can name in Depends() *)
Dependencies == {"get_current_user", "get_admin_user", "get_premium_user",
                 "get_active_user", "get_current_user_oauth2"}

dependency(name, token) ==
    CASE name = "get_current_user" -> get_current_user(token)
      [] name = "get_admin_user" -> get_admin_user(token)
      [] name = "get_premium_user" -> get_premium_user(token)
      [] name = "get_active_user" -> get_active_user(token)
      [] name = "get_current_user_oauth2" -> get_current_user_oauth2(token)

----------------------------------------------------------------------------
(* The request/response record of a step *)

(* a response body without a token pair *)
NoAccessToken == [kind |-> "none", sub |-> None]

Resp(op, actor, arg, status, detail, n) ==
    [op |-> op, actor |-> actor, arg |-> arg, status |-> status,
     detail |-> detail, n |-> n,
     access_token |-> NoAccessToken, expires_in |-> 0, user_agent |-> NoDevice]

(* the response that returns a token pair; user_agent is the request's header *)
PairResp(op, arg, pair, user_agent) ==
    [Resp(op, None, arg, 200, pair.token_type, pair.refresh_token)
        EXCEPT !.access_token = pair.access_token,
               !.expires_in = pair.expires_in,
               !.user_agent = user_agent]

(* a worker's request in flight: a refresh (tok, row, user, device, new)  *)
(* or a sweep (ids, the rows it has selected)                             *)
IdleReq == [pc |-> "idle", tok |-> None, row |-> None, user |-> None,
            device |-> NoDevice, new |-> None, ids |-> {}]

(* what is remembered about every refresh token string ever issued *)
NewHist(owner) ==
    [owner |-> owner, wins |-> 0, logged_out_all |-> FALSE, parent |-> None]

(* the same for a token string issued by a refresh of the string parent *)
Rotated(owner, parent) == [NewHist(owner) EXCEPT !.parent = parent]

----------------------------------------------------------------------------
(* create_admin.py: the store the service starts on holds the first admin *)

Init ==
    /\ users = (1 :> [email |-> AdminEmail,
                      hashed_password |-> get_password_hash(AdminPassword),
                      role |-> ADMIN, is_active |-> "true"])
    /\ clients = (1 :> [client_id |-> 1, client_secret |-> 1, user_id |-> 1,
                        is_active |-> "true", last_used_at |-> Never])
    /\ tokens = <<>>
    /\ nextUserId = 2
    /\ nextTok = 1
    /\ minted = {}
    /\ now = 0
    /\ rq = [s \in Slots |-> IdleReq]
    /\ hist = <<>>
    /\ last = Resp("start", None, None, 200, "", 0)
    /\ SECRET_KEY = ServingKey
    /\ customers = <<>>
    /\ notes = <<>>

(* the process before auth.py is imported: the same store, no secret yet *)
InitBoot ==
    /\ users = (1 :> [email |-> AdminEmail,
                      hashed_password |-> get_password_hash(AdminPassword),
                      role |-> ADMIN, is_active |-> "true"])
    /\ clients = (1 :> [client_id |-> 1, client_secret |-> 1, user_id |-> 1,
                        is_active |-> "true", last_used_at |-> Never])
    /\ tokens = <<>>
    /\ nextUserId = 2
    /\ nextTok = 1
    /\ minted = {}
    /\ now = 0
    /\ rq = [s \in Slots |-> IdleReq]
    /\ hist = <<>>
    /\ last = Resp("start", None, None, 200, "", 0)
    /\ SECRET_KEY = NotStarted
    /\ customers = <<>>
    /\ notes = <<>>

(* the store after b@x.com has registered, an admin has promoted it to    *)
(* premium, and both identities have logged in: two callers that may own  *)
(* customers, each holding an access token                                *)
InitCrm ==
    /\ users = (1 :> [email |-> AdminEmail,
                      hashed_password |-> get_password_hash(AdminPassword),
                      role |-> ADMIN, is_active |-> "true"])
                @@ (2 :> [email |-> "b@x.com",
                          hashed_password |-> get_password_hash("hunter2hunter2"),
                          role |-> PREMIUM_USER, is_active |-> "true"])
    /\ clients = [c \in {1, 2} |->
                     [client_id |-> c, client_secret |-> c, user_id |-> c,
                      is_active |-> "true", last_used_at |-> Never]]
    /\ tokens = [t \in {1, 2} |->
                    [token |-> t, user_id |-> t, device_info |-> "ua-1",
                     expires_at |-> REFRESH_TOKEN_EXPIRE_DAYS, is_active |-> "true",
                     last_used_at |-> Never]]
    /\ nextUserId = 3
    /\ nextTok = 3
    /\ minted = {1, 2}
    /\ now = 0
    /\ rq = [s \in Slots |-> IdleReq]
    /\ hist = [t \in {1, 2} |-> NewHist(t)]
    /\ last = Resp("start", None, None, 200, "", 0)
    /\ SECRET_KEY = ServingKey
    /\ customers = <<>>
    /\ notes = <<>>

(* auth.py lines 14-36, run when the service imports the module: a        *)
(* ValueError here ends the process before it serves a request            *)
import_auth(env, dotenv) ==
    /\ SECRET_KEY = NotStarted
    /\ LET key == load_secret_key(env, dotenv)
           error == secret_key_error(key)
       IN IF error # ""
          THEN /\ last' = Resp("startup", None, <<env, dotenv>>, 500, error, 0)
               /\ UNCHANGED SECRET_KEY
          ELSE /\ last' = Resp("startup", None, <<env, dotenv>>, 200, "", 0)
               /\ SECRET_KEY' = key
    /\ UNCHANGED <<users, clients, tokens, nextUserId, nextTok, minted, now, rq, hist,
                   customers, notes>>

(* requests are served once the modules are imported *)
Serving == SECRET_KEY # NotStarted

----------------------------------------------------------------------------
(* The clock, in days.  An access token lives ACCESS_TOKEN_EXPIRE_MINUTES, *)
(* so none signed before a jump decodes after it.                         *)

Advance(d) ==
    /\ now + d <= MaxTime
    /\ now' = now + d
    /\ minted' = {}
    /\ last' = Resp("advance", None, d, 200, "", 0)
    /\ UNCHANGED <<users, clients, tokens, nextUserId, nextTok, rq, hist, SECRET_KEY,
                   customers, notes>>

----------------------------------------------------------------------------
(* routers/auth.py *)

NewClientRowInactive(user_id) ==
    [client_id |-> user_id, client_secret |-> user_id,
     user_id |-> user_id, is_active |-> "false", last_used_at |-> Never]

(* lines 75-83: a client id and a secret drawn at random, never used before *)
NewClientRow(user_id) ==
    [client_id |-> user_id, client_secret |-> user_id,
     user_id |-> user_id, is_active |-> "true", last_used_at |-> Never]

register(email, password) ==
    IF ~ValidPassword(password)
    THEN /\ last' = Resp("register", None, email, 422, "Password validation error", 0)
         /\ UNCHANGED <<users, clients, tokens, nextUserId, nextTok, minted, now, rq, hist,
                   SECRET_KEY,
                   customers, notes>>
    ELSE IF get_user_by_email(users, email) # None
    THEN /\ last' = Resp("register", None, email, 400, "Email already registered", 0)
         /\ UNCHANGED <<users, clients, tokens, nextUserId, nextTok, minted, now, rq, hist,
                   SECRET_KEY,
                   customers, notes>>
    ELSE /\ nextUserId <= MaxUsers
         /\ users' = users @@ (nextUserId :>
                [email |-> email, hashed_password |-> get_password_hash(password),
                 role |-> BASIC_USER, is_active |-> "true"])
         /\ clients' = clients @@ (nextUserId :> NewClientRow(nextUserId))
         /\ nextUserId' = nextUserId + 1
         /\ last' = Resp("register", None, email, 200, "Registration successful", nextUserId)
         /\ UNCHANGED <<tokens, nextTok, minted, now, rq, hist, SECRET_KEY,
                   customers, notes>>

LoginFailureByCause(us, email) ==
    IF get_user_by_email(us, email) = None
    THEN [status |-> 404, detail |-> "User not found"]
    ELSE [status |-> 401, detail |-> "Incorrect email or password"]

LoginFailure(us, email) ==
    [status |-> 401, detail |-> "Incorrect email or password"]

login_for_access_token(email, password, user_agent) ==
    LET user == authenticate_user(users, email, password) IN
    IF user = None
    THEN /\ last' = Resp("login", None, email, LoginFailure(users, email).status,
                         LoginFailure(users, email).detail, 0)
         /\ UNCHANGED <<users, clients, tokens, nextUserId, nextTok, minted, now, rq, hist,
                   SECRET_KEY,
                   customers, notes>>
    ELSE LET token_data == create_token_pair(user) IN
         /\ nextTok <= MaxTokens
         /\ tokens' = cleanup_expired_tokens(
                          create_refresh_token_db(tokens, user, token_data.refresh_token,
                                                  device_descriptor(user_agent)))
         /\ nextTok' = nextTok + 1
         /\ minted' = minted \cup {user}
         /\ hist' = hist @@ (token_data.refresh_token :> NewHist(user))
         /\ last' = PairResp("login", email, token_data, user_agent)
         /\ UNCHANGED <<users, clients, nextUserId, now, rq, SECRET_KEY,
                   customers, notes>>

get_oauth2_client_any(cs, client_id, client_secret) ==
    IF \E c \in DOMAIN cs : /\ cs[c].client_id = client_id
                            /\ cs[c].client_secret = client_secret
    THEN CHOOSE c \in DOMAIN cs : /\ cs[c].client_id = client_id
                                  /\ cs[c].client_secret = client_secret
    ELSE None

get_oauth2_client(cs, client_id, client_secret) ==
    IF \E c \in DOMAIN cs : /\ cs[c].client_id = client_id
                            /\ cs[c].client_secret = client_secret
                            /\ cs[c].is_active = "true"
    THEN CHOOSE c \in DOMAIN cs : /\ cs[c].client_id = client_id
                                  /\ cs[c].client_secret = client_secret
                                  /\ cs[c].is_active = "true"
    ELSE None

get_oauth2_token(client_id, client_secret) ==
    LET oauth2_client == get_oauth2_client(clients, client_id, client_secret) IN
    IF oauth2_client = None
    THEN /\ last' = Resp("oauth2_token", None, <<client_id, client_secret>>, 401, "Invalid client credentials", 0)
         /\ UNCHANGED <<users, clients, tokens, nextUserId, nextTok, minted, now, rq, hist,
                   SECRET_KEY,
                   customers, notes>>
    ELSE LET uid == clients[oauth2_client].user_id IN
         IF ~(uid \in DOMAIN users /\ users[uid].is_active = "true")
         THEN /\ last' = Resp("oauth2_token", None, <<client_id, client_secret>>, 401,
                              "User not found or inactive", 0)
              /\ UNCHANGED <<users, clients, tokens, nextUserId, nextTok, minted, now, rq, hist,
                   SECRET_KEY,
                   customers, notes>>
         ELSE LET token_pair == create_token_pair(uid) IN
              /\ nextTok <= MaxTokens
              /\ tokens' = create_refresh_token_db(tokens, uid, token_pair.refresh_token,
                                                   NoDevice)
              /\ clients' = [clients EXCEPT ![oauth2_client].last_used_at = now]
              /\ nextTok' = nextTok + 1
              /\ minted' = minted \cup {uid}
              /\ hist' = hist @@ (token_pair.refresh_token :> NewHist(uid))
              /\ last' = PairResp("oauth2_token", <<client_id, client_secret>>, token_pair,
                                   NoDevice)
              /\ UNCHANGED <<users, nextUserId, now, rq, SECRET_KEY,
                   customers, notes>>

(* A client credential is deactivated, not deleted, by an administrative *)
(* change of its record; no handler of the API writes this column.         *)
deactivate_client(c) ==
    /\ c \in DOMAIN clients
    /\ clients[c].is_active = "true"
    /\ clients' = [clients EXCEPT ![c].is_active = "false"]
    /\ last' = Resp("deactivate_client", None, c, 200, "", 0)
    /\ UNCHANGED <<users, tokens, nextUserId, nextTok, minted, now, rq, hist,
                   SECRET_KEY,
                   customers, notes>>

(* refresh_access_token served without any other request in between *)
refresh_access_token(refresh_token, user_agent) ==
    LET db_refresh_token == get_refresh_token_db(tokens, refresh_token) IN
    IF db_refresh_token = None
    THEN /\ last' = Resp("refresh", None, refresh_token, 401, "Invalid refresh token", 0)
         /\ UNCHANGED <<users, clients, tokens, nextUserId, nextTok, minted, now, rq, hist,
                   SECRET_KEY,
                   customers, notes>>
    ELSE IF tokens[db_refresh_token].expires_at < now
    THEN /\ tokens' = [id \in DOMAIN tokens \ {db_refresh_token} |-> tokens[id]]
         /\ last' = Resp("refresh", None, refresh_token, 401, "Refresh token expired", 0)
         /\ UNCHANGED <<users, clients, nextUserId, nextTok, minted, now, rq, hist,
                   SECRET_KEY,
                   customers, notes>>
    ELSE LET user == get_user(users, tokens[db_refresh_token].user_id) IN
         IF user = None
         THEN /\ last' = Resp("refresh", None, refresh_token, 401, "User not found", 0)
              /\ UNCHANGED <<users, clients, tokens, nextUserId, nextTok, minted, now, rq, hist,
                   SECRET_KEY,
                   customers, notes>>
         ELSE LET new_token_data == create_token_pair(user)
                  new_token == new_token_data.refresh_token
                  invalidated == invalidate_refresh_token(tokens, refresh_token)
                  created == create_refresh_token_db(invalidated, user, new_token,
                                                     device_descriptor(user_agent))
              IN
              /\ nextTok <= MaxTokens
              /\ tokens' = [created EXCEPT ![db_refresh_token].last_used_at = now]
              /\ nextTok' = nextTok + 1
              /\ minted' = minted \cup {user}
              /\ hist' = [hist EXCEPT ![refresh_token].wins = @ + 1]
                            @@ (new_token :> Rotated(user, refresh_token))
              /\ last' = PairResp("refresh", refresh_token, new_token_data, user_agent)
              /\ UNCHANGED <<users, clients, nextUserId, now, rq, SECRET_KEY,
                   customers, notes>>

(* refresh_access_token, one action per database round trip of a request *)

(* lines 190-208: look the presented token up, then check its expiry *)
RefreshLookup(s, refresh_token, user_agent) ==
    /\ rq[s].pc = "idle"
    /\ LET db_refresh_token == get_refresh_token_db(tokens, refresh_token) IN
       IF db_refresh_token = None
       THEN /\ last' = Resp("refresh", None, refresh_token, 401, "Invalid refresh token", 0)
            /\ UNCHANGED <<tokens, rq>>
       ELSE IF tokens[db_refresh_token].expires_at < now
       THEN /\ tokens' = [id \in DOMAIN tokens \ {db_refresh_token} |-> tokens[id]]
            /\ last' = Resp("refresh", None, refresh_token, 401, "Refresh token expired", 0)
            /\ UNCHANGED rq
       ELSE /\ rq' = [rq EXCEPT ![s] = [pc |-> "get_user", tok |-> refresh_token,
                                        row |-> db_refresh_token,
                                        user |-> tokens[db_refresh_token].user_id,
                                        device |-> user_agent, new |-> None,
                                        ids |-> {}]]
            /\ last' = Resp("refresh_lookup", None, refresh_token, 0, "", 0)
            /\ UNCHANGED tokens
    /\ UNCHANGED <<users, clients, nextUserId, nextTok, minted, now, hist,
                   SECRET_KEY,
                   customers, notes>>

(* lines 210-221: load the owner *)
RefreshGetUser(s) ==
    /\ rq[s].pc = "get_user"
    /\ IF get_user(users, rq[s].user) = None
       THEN /\ rq' = [rq EXCEPT ![s] = IdleReq]
            /\ last' = Resp("refresh", None, rq[s].tok, 401, "User not found", 0)
       ELSE /\ rq' = [rq EXCEPT ![s].pc = "invalidate"]
            /\ last' = Resp("refresh_get_user", None, rq[s].tok, 0, "", 0)
    /\ UNCHANGED <<users, clients, tokens, nextUserId, nextTok, minted, now, hist,
                   SECRET_KEY,
                   customers, notes>>

(* line 224 *)
RefreshInvalidate(s) ==
    /\ rq[s].pc = "invalidate"
    /\ tokens' = invalidate_refresh_token(tokens, rq[s].tok)
    /\ rq' = [rq EXCEPT ![s].pc =
                  IF get_refresh_token_db(tokens, rq[s].tok) = None
                  THEN "create_cached" ELSE "create"]
    /\ last' = Resp("refresh_invalidate", None, rq[s].tok, 0, "", 0)
    /\ UNCHANGED <<users, clients, nextUserId, nextTok, minted, now, hist,
                   SECRET_KEY,
                   customers, notes>>

(* lines 227-228. When line 224 committed, the session has expired user   *)
(* and user.id is reloaded: the load fails (ObjectDeletedError) if the    *)
(* user row is gone by then. When line 224 found no active row it did not *)
(* commit (pc "create_cached"): user.id is the value read at line 211 and *)
(* the INSERT names a user that may be gone. A store that enforces the    *)
(* foreign key refuses that INSERT; the default SQLite store              *)
(* (database.py) does not enforce it.                                     *)
RefreshCreate(s) ==
    /\ rq[s].pc \in {"create", "create_cached"}
    /\ \/ /\ get_user(users, rq[s].user) = None
          /\ rq' = [rq EXCEPT ![s] = IdleReq]
          /\ last' = Resp("refresh", None, rq[s].tok, 500, "Internal server error", 0)
          /\ UNCHANGED <<tokens, nextTok, hist>>
       \/ /\ get_user(users, rq[s].user) # None \/ rq[s].pc = "create_cached"
          /\ LET refresh_token == create_refresh_token IN
             /\ nextTok <= MaxTokens
             /\ tokens' = create_refresh_token_db(tokens, rq[s].user, refresh_token,
                                                  device_descriptor(rq[s].device))
             /\ nextTok' = nextTok + 1
             /\ hist' = hist @@ (refresh_token :> Rotated(rq[s].user, rq[s].tok))
             /\ rq' = [rq EXCEPT ![s].pc = "touch", ![s].new = refresh_token]
             /\ last' = Resp("refresh_create", None, rq[s].tok, 0, "", 0)
    /\ UNCHANGED <<users, clients, nextUserId, minted, now, SECRET_KEY,
                   customers, notes>>

(* lines 230-235: UPDATE of the row read at line 191; the flush fails     *)
(* (StaleDataError) if that row has been deleted meanwhile                *)
RefreshTouch(s) ==
    /\ rq[s].pc = "touch"
    /\ IF rq[s].row \notin DOMAIN tokens
       THEN /\ last' = Resp("refresh", None, rq[s].tok, 500, "Internal server error", 0)
            /\ UNCHANGED <<tokens, minted, hist>>
       ELSE /\ tokens' = [tokens EXCEPT ![rq[s].row].last_used_at = now]
            /\ minted' = minted \cup {rq[s].user}
            /\ hist' = [hist EXCEPT ![rq[s].tok].wins = @ + 1]
            /\ last' = PairResp("refresh", rq[s].tok,
                                [create_token_pair(rq[s].user)
                                    EXCEPT !.refresh_token = rq[s].new],
                                rq[s].device)
    /\ rq' = [rq EXCEPT ![s] = IdleReq]
    /\ UNCHANGED <<users, clients, nextUserId, nextTok, now, SECRET_KEY,
                   customers, notes>>

(* a dependency raised HTTPException: the handler body does not run *)
Reject(op, arg, cur) ==
    /\ ~cur.ok
    /\ last' = Resp(op, None, arg, cur.status, cur.detail, 0)
    /\ UNCHANGED <<users, clients, tokens, nextUserId, nextTok, minted, now, rq, hist,
                   SECRET_KEY,
                   customers, notes>>

read_me(token) ==
    LET cur == get_current_user(token) IN
    IF ~cur.ok
    THEN Reject("read_me", None, cur)
    ELSE /\ last' = Resp("read_me", cur.user, None, 200, "", 0)
         /\ UNCHANGED <<users, clients, tokens, nextUserId, nextTok, minted, now, rq, hist,
                   SECRET_KEY,
                   customers, notes>>

(* the dependency on its own: the identity a presented token resolves to *)
Authorize(token) ==
    LET cur == get_current_user(token) IN
    /\ last' = [Resp("get_current_user", cur.user, None, cur.status, cur.detail, 0)
                  EXCEPT !.access_token = token]
    /\ UNCHANGED <<users, clients, tokens, nextUserId, nextTok, minted, now, rq, hist,
                   SECRET_KEY,
                   customers, notes>>

(* any dependency on its own: what a route that names it answers before  *)
(* its body runs                                                          *)
Depends(name, token) ==
    LET cur == dependency(name, token) IN
    /\ last' = [Resp(name, cur.user, None, cur.status, cur.detail, 0)
                  EXCEPT !.access_token = token]
    /\ UNCHANGED <<users, clients, tokens, nextUserId, nextTok, minted, now, rq, hist,
                   SECRET_KEY, customers, notes>>

ActiveTokensOfDevices(toks, user_id) ==
    {id \in DOMAIN toks : /\ toks[id].user_id = user_id
                          /\ toks[id].is_active = "true"
                          /\ toks[id].device_info # NoDevice}

ActiveTokensOfAnyone(toks, user_id) ==
    {id \in DOMAIN toks : toks[id].is_active = "true"}

ActiveTokensOf(toks, user_id) ==
    {id \in DOMAIN toks : toks[id].user_id = user_id /\ toks[id].is_active = "true"}

TokensOf(toks, user_id) == {id \in DOMAIN toks : toks[id].user_id = user_id}

get_my_tokens(token) ==
    LET cur == get_current_user(token) IN
    IF ~cur.ok
    THEN Reject("get_my_tokens", {}, cur)
    ELSE /\ last' = Resp("get_my_tokens", cur.user, ActiveTokensOf(tokens, cur.user),
                         200, "", Cardinality(ActiveTokensOf(tokens, cur.user)))
         /\ UNCHANGED <<users, clients, tokens, nextUserId, nextTok, minted, now, rq, hist,
                   SECRET_KEY,
                   customers, notes>>

revoke_token(token, token_id) ==
    LET cur == get_current_user(token) IN
    IF ~cur.ok
    THEN Reject("revoke_token", token_id, cur)
    ELSE IF ~(token_id \in DOMAIN tokens /\ tokens[token_id].user_id = cur.user)
    THEN /\ last' = Resp("revoke_token", cur.user, token_id, 404, "Token not found", 0)
         /\ UNCHANGED <<users, clients, tokens, nextUserId, nextTok, minted, now, rq, hist,
                   SECRET_KEY,
                   customers, notes>>
    ELSE /\ tokens' = [id \in DOMAIN tokens \ {token_id} |-> tokens[id]]
         /\ last' = Resp("revoke_token", cur.user, token_id, 200,
                         "Token revoked successfully", 0)
         /\ UNCHANGED <<users, clients, nextUserId, nextTok, minted, now, rq, hist,
                   SECRET_KEY,
                   customers, notes>>

LogoutTargetsOne(toks, user_id) ==
    IF ActiveTokensOf(toks, user_id) = {}
    THEN {}
    ELSE {CHOOSE id \in ActiveTokensOf(toks, user_id) : TRUE}

LogoutTargets(toks, user_id) == ActiveTokensOf(toks, user_id)

logout(token) ==
    LET cur == get_current_user(token) IN
    IF ~cur.ok
    THEN Reject("logout", None, cur)
    ELSE LET active_tokens == LogoutTargets(tokens, cur.user) IN
         /\ tokens' = [id \in DOMAIN tokens |->
                          IF id \in active_tokens
                          THEN [tokens[id] EXCEPT !.is_active = "false"]
                          ELSE tokens[id]]
         /\ last' = Resp("logout", cur.user, None, 200, "Logged out successfully",
                         Cardinality(active_tokens))
         /\ UNCHANGED <<users, clients, nextUserId, nextTok, minted, now, rq, hist,
                   SECRET_KEY,
                   customers, notes>>

LogoutAllTargetsActive(toks, user_id) == ActiveTokensOf(toks, user_id)

LogoutAllTargetsEveryone(toks, user_id) == DOMAIN toks

LogoutAllTargets(toks, user_id) == TokensOf(toks, user_id)

logout_all_devices(token) ==
    LET cur == get_current_user(token) IN
    IF ~cur.ok
    THEN Reject("logout_all", None, cur)
    ELSE LET deleted == LogoutAllTargets(tokens, cur.user) IN
         /\ tokens' = [id \in DOMAIN tokens \ deleted |-> tokens[id]]
         /\ hist' = [t \in DOMAIN hist |->
                        IF hist[t].owner = cur.user
                        THEN [hist[t] EXCEPT !.logged_out_all = TRUE]
                        ELSE hist[t]]
         /\ last' = Resp("logout_all", cur.user, None, 200, "Logged out from all devices",
                         Cardinality(deleted))
         /\ UNCHANGED <<users, clients, nextUserId, nextTok, minted, now, rq,
                   SECRET_KEY,
                   customers, notes>>

----------------------------------------------------------------------------
(* routers/system.py *)

(* cleanup_expired_tokens, one action per database round trip: the query  *)
(* of lines 113-115, then the DELETE of each selected row and the commit   *)
(* of lines 117-120.  A DELETE that matches no row is not an error.        *)
SweepSelect(s) ==
    /\ rq[s].pc = "idle"
    /\ rq' = [rq EXCEPT ![s] = [IdleReq EXCEPT !.pc = "sweep_delete",
                                               !.ids = ExpiredIds(tokens)]]
    /\ last' = Resp("cleanup_select", None, None, 0, "", 0)
    /\ UNCHANGED <<users, clients, tokens, nextUserId, nextTok, minted, now, hist,
                   SECRET_KEY,
                   customers, notes>>

SweepDelete(s) ==
    /\ rq[s].pc = "sweep_delete"
    /\ tokens' = [id \in DOMAIN tokens \ rq[s].ids |-> tokens[id]]
    /\ rq' = [rq EXCEPT ![s] = IdleReq]
    /\ last' = Resp("cleanup", None, None, 200, "Cleanup completed successfully",
                    Cardinality(rq[s].ids))
    /\ UNCHANGED <<users, clients, nextUserId, nextTok, minted, now, hist,
                   SECRET_KEY,
                   customers, notes>>

cleanup_endpoint ==
    /\ tokens' = cleanup_expired_tokens(tokens)
    /\ last' = Resp("cleanup", None, None, 200, "Cleanup completed successfully",
                    Cardinality(ExpiredIds(tokens)))
    /\ UNCHANGED <<users, clients, nextUserId, nextTok, minted, now, rq, hist,
                   SECRET_KEY,
                   customers, notes>>

----------------------------------------------------------------------------
(* routers/admin.py *)

Same == <<users, clients, tokens, nextUserId, nextTok, minted, now, rq, hist,
         SECRET_KEY, customers, notes>>

(* UserUpdate: each field is left out, or carries a value; is_active is   *)
(* any string                                                              *)
RoleUpdates == UserRole \cup {Unset}

ActiveUpdates == ActiveStrings \cup {Unset}

SelfDeactivation(user_id, admin, is_active) ==
    user_id = admin /\ is_active = "false"

update_user(token, user_id, role, is_active) ==
    LET cur == get_admin_user(token) IN
    IF ~cur.ok
    THEN Reject("update_user", user_id, cur)
    ELSE IF get_user(users, user_id) = None
    THEN /\ last' = Resp("update_user", cur.user, user_id, 404, "User not found", 0)
         /\ UNCHANGED Same
    ELSE IF SelfDeactivation(user_id, cur.user, is_active)
    THEN /\ last' = Resp("update_user", cur.user, user_id, 400,
                         "Cannot deactivate your own account", 0)
         /\ UNCHANGED Same
    ELSE /\ users' = [users EXCEPT
                ![user_id].role = IF role = Unset THEN @ ELSE role,
                ![user_id].is_active = IF is_active = Unset THEN @ ELSE is_active]
         /\ last' = Resp("update_user", cur.user, user_id, 200, "", 0)
         /\ UNCHANGED <<clients, tokens, nextUserId, nextTok, minted, now, rq, hist,
                   SECRET_KEY,
                   customers, notes>>

(* db.delete(user) cascades to the user's refresh tokens and clients; the  *)
(* customers relationship has no delete cascade, so the unit of work sets *)
(* owner_id of the user's customers to NULL                               *)
delete_user(token, user_id) ==
    LET cur == get_admin_user(token) IN
    IF ~cur.ok
    THEN Reject("delete_user", user_id, cur)
    ELSE IF user_id = cur.user
    THEN /\ last' = Resp("delete_user", cur.user, user_id, 400,
                         "Cannot delete your own account", 0)
         /\ UNCHANGED Same
    ELSE IF get_user(users, user_id) = None
    THEN /\ last' = Resp("delete_user", cur.user, user_id, 404, "User not found", 0)
         /\ UNCHANGED Same
    ELSE /\ users' = [u \in DOMAIN users \ {user_id} |-> users[u]]
         /\ tokens' = [id \in DOMAIN tokens \ TokensOf(tokens, user_id) |-> tokens[id]]
         /\ clients' = [c \in {k \in DOMAIN clients : clients[k].user_id # user_id}
                           |-> clients[c]]
         /\ customers' = [c \in DOMAIN customers |->
                              IF customers[c].owner_id = user_id
                              THEN [customers[c] EXCEPT !.owner_id = None]
                              ELSE customers[c]]
         /\ last' = Resp("delete_user", cur.user, user_id, 204, "", 0)
         /\ UNCHANGED <<nextUserId, nextTok, minted, now, rq, hist, SECRET_KEY, notes>>

promote_user(token, user_id, target_role) ==
    LET cur == get_admin_user(token) IN
    IF ~cur.ok
    THEN Reject("promote_user", user_id, cur)
    ELSE IF get_user(users, user_id) = None
    THEN /\ last' = Resp("promote_user", cur.user, user_id, 404, "User not found", 0)
         /\ UNCHANGED Same
    ELSE /\ users' = [users EXCEPT ![user_id].role = target_role]
         /\ last' = Resp("promote_user", cur.user, user_id, 200,
                         users[user_id].role, target_role)
         /\ UNCHANGED <<clients, tokens, nextUserId, nextTok, minted, now, rq, hist,
                   SECRET_KEY,
                   customers, notes>>

toggle_user_status(token, user_id) ==
    LET cur == get_admin_user(token) IN
    IF ~cur.ok
    THEN Reject("toggle_user_status", user_id, cur)
    ELSE IF user_id = cur.user
    THEN /\ last' = Resp("toggle_user_status", cur.user, user_id, 400,
                         "Cannot change your own account status", 0)
         /\ UNCHANGED Same
    ELSE IF get_user(users, user_id) = None
    THEN /\ last' = Resp("toggle_user_status", cur.user, user_id, 404, "User not found", 0)
         /\ UNCHANGED Same
    ELSE LET new_status == IF users[user_id].is_active = "true" THEN "false" ELSE "true" IN
         /\ users' = [users EXCEPT ![user_id].is_active = new_status]
         /\ last' = Resp("toggle_user_status", cur.user, user_id, 200, new_status, 0)
         /\ UNCHANGED <<clients, tokens, nextUserId, nextTok, minted, now, rq, hist,
                   SECRET_KEY,
                   customers, notes>>

----------------------------------------------------------------------------
(* dependencies.py: the role check, applied to a stored identity *)

CheckPermissions(user_id, required_role) ==
    /\ user_id \in DOMAIN users
    /\ last' = Resp("check_user_permissions", user_id,
                    <<users[user_id].role, required_role>>, 200, "",
                    IF check_user_permissions(users[user_id].role, required_role)
                    THEN 1 ELSE 0)
    /\ UNCHANGED Same

(* auth.py: the credential hasher, called on any password.  A password   *)
(* is verified against the hash of a password that was accepted.          *)
HashPassword(password) ==
    LET error == get_password_hash_error(password) IN
    /\ last' = Resp("get_password_hash", None, password,
                    IF error = "" THEN 200 ELSE 400, error, 0)
    /\ UNCHANGED <<users, clients, tokens, nextUserId, nextTok, minted, now, rq, hist,
                   SECRET_KEY,
                   customers, notes>>

VerifyPassword(plain_password, stored) ==
    /\ get_password_hash_error(stored) = ""
    /\ last' = Resp("verify_password", None, <<plain_password, stored>>, 200, "",
                    IF verify_password(plain_password, get_password_hash(stored))
                    THEN 1 ELSE 0)
    /\ UNCHANGED <<users, clients, tokens, nextUserId, nextTok, minted, now, rq, hist,
                   SECRET_KEY,
                   customers, notes>>

(* auth.py: the token codec, called at chosen instants.  The token minted *)
(* last is the one verified.                                               *)
MintInstants == 0..9

Elapsed == {0, 1, ACCESS_TOKEN_EXPIRE_MINUTES * 60 - 1, ACCESS_TOKEN_EXPIRE_MINUTES * 60,
            ACCESS_TOKEN_EXPIRE_MINUTES * 60 + 1, 2 * ACCESS_TOKEN_EXPIRE_MINUTES * 60}

MintAccessToken(sub, t) ==
    /\ last' = [Resp("create_access_token", None, t, 200, "", sub)
                  EXCEPT !.access_token = create_access_token_at(sub, t),
                         !.expires_in = ACCESS_TOKEN_EXPIRE_MINUTES * 60]
    /\ UNCHANGED <<users, clients, tokens, nextUserId, nextTok, minted, now, rq, hist,
                   SECRET_KEY,
                   customers, notes>>

VerifyAccessToken(e) ==
    /\ last.access_token.kind = "valid"
    /\ LET t == (last.access_token.exp - last.expires_in) + e
           payload == decode_access_token_at(last.access_token, t)
       IN last' = [Resp("decode_access_token", None, t,
                        IF payload.ok THEN 200 ELSE 401, "", payload.sub)
                     EXCEPT !.access_token = last.access_token,
                            !.expires_in = last.expires_in]
    /\ UNCHANGED <<users, clients, tokens, nextUserId, nextTok, minted, now, rq, hist,
                   SECRET_KEY,
                   customers, notes>>

(* dependencies.py: invalidate_refresh_token, called on the store with any *)
(* token string; it returns the row it marked, or None                    *)
Invalidate(refresh_token) ==
    /\ tokens' = invalidate_refresh_token(tokens, refresh_token)
    /\ last' = Resp("invalidate_refresh_token", None, refresh_token, 200, "",
                    get_refresh_token_db(tokens, refresh_token))
    /\ UNCHANGED <<users, clients, nextUserId, nextTok, minted, now, rq, hist,
                   SECRET_KEY,
                   customers, notes>>

----------------------------------------------------------------------------
(* routers/customers.py *)

(* the id a new row gets: SQLite's INTEGER PRIMARY KEY is the largest id  *)
(* in the table plus one                                                  *)
NewRowId(rows) ==
    IF DOMAIN rows = {} THEN 1
    ELSE 1 + CHOOSE m \in DOMAIN rows : \A k \in DOMAIN rows : k <= m

NewCustomerRow(name, owner_id) == [name |-> name, owner_id |-> owner_id]

create_customer(token, name) ==
    LET cur == get_premium_user(token) IN
    IF ~cur.ok
    THEN /\ last' = [Resp("create_customer", None, name, cur.status, cur.detail, 0)
                       EXCEPT !.access_token = token]
         /\ UNCHANGED Same
    ELSE LET id == NewRowId(customers) IN
         /\ id <= MaxCustomers
         /\ customers' = customers @@ (id :> NewCustomerRow(name, cur.user))
         /\ last' = [Resp("create_customer", cur.user, name, 200, "", id)
                       EXCEPT !.access_token = token]
         /\ UNCHANGED <<users, clients, tokens, nextUserId, nextTok, minted, now, rq,
                        hist, SECRET_KEY, notes>>

(* search terms of GET /api/customers/: none, or a string matched with    *)
(* ILIKE '%term%' against the text columns of the row                     *)
SearchTerms == {Unset, "acme", "lob"}

Contains(name, term) ==
    \/ term = "acme" /\ name = "acme"
    \/ term = "lob" /\ name = "globex"

Skips == {0, 1}

(* the rows of a query after OFFSET skip, in the order of their ids *)
Offset(ids, skip) ==
    {c \in ids : Cardinality({k \in ids : k < c}) >= skip}

(* .filter(Customer.id == customer_id, Customer.owner_id == user_id).first() *)
owned_customer_any(cs, customer_id, user_id) ==
    IF customer_id \in DOMAIN cs THEN customer_id ELSE None

owned_customer(cs, customer_id, user_id) ==
    IF customer_id \in DOMAIN cs /\ cs[customer_id].owner_id = user_id
    THEN customer_id ELSE None

NotesOf(ns, customer_id) == {k \in DOMAIN ns : ns[k].customer_id = customer_id}

list_customers(token, skip, search) ==
    LET cur == get_current_user(token) IN
    IF ~cur.ok
    THEN Reject("list_customers", None, cur)
    ELSE LET rows == {c \in DOMAIN customers :
                         /\ customers[c].owner_id = cur.user
                         /\ search # Unset => Contains(customers[c].name, search)}
         IN /\ last' = Resp("list_customers", cur.user, None, 200, "", Offset(rows, skip))
            /\ UNCHANGED Same

get_customer(token, customer_id) ==
    LET cur == get_current_user(token) IN
    IF ~cur.ok
    THEN Reject("get_customer", customer_id, cur)
    ELSE IF owned_customer(customers, customer_id, cur.user) = None
    THEN /\ last' = Resp("get_customer", cur.user, customer_id, 404, "Customer not found", 0)
         /\ UNCHANGED Same
    ELSE /\ last' = Resp("get_customer", cur.user, customer_id, 200, "", customer_id)
         /\ UNCHANGED Same

(* CustomerUpdate with exclude_unset: a field left out keeps its value *)
update_customer(token, customer_id, name) ==
    LET cur == get_current_user(token) IN
    IF ~cur.ok
    THEN Reject("update_customer", customer_id, cur)
    ELSE IF owned_customer(customers, customer_id, cur.user) = None
    THEN /\ last' = Resp("update_customer", cur.user, customer_id, 404,
                         "Customer not found", 0)
         /\ UNCHANGED Same
    ELSE /\ customers' = [customers EXCEPT
                             ![customer_id].name = IF name = Unset THEN @ ELSE name]
         /\ last' = Resp("update_customer", cur.user, customer_id, 200, "", customer_id)
         /\ UNCHANGED <<users, clients, tokens, nextUserId, nextTok, minted, now, rq,
                        hist, SECRET_KEY, notes>>

(* db.delete(customer) cascades to the notes of the customer *)
delete_customer(token, customer_id) ==
    LET cur == get_current_user(token) IN
    IF ~cur.ok
    THEN Reject("delete_customer", customer_id, cur)
    ELSE IF owned_customer(customers, customer_id, cur.user) = None
    THEN /\ last' = Resp("delete_customer", cur.user, customer_id, 404,
                         "Customer not found", 0)
         /\ UNCHANGED Same
    ELSE /\ customers' = [c \in DOMAIN customers \ {customer_id} |-> customers[c]]
         /\ notes' = [k \in DOMAIN notes \ NotesOf(notes, customer_id) |-> notes[k]]
         /\ last' = Resp("delete_customer", cur.user, customer_id, 204, "", 0)
         /\ UNCHANGED <<users, clients, tokens, nextUserId, nextTok, minted, now, rq,
                        hist, SECRET_KEY>>

----------------------------------------------------------------------------
(* routers/notes.py *)

NoteContents == {"called", "mailed"}

NewNoteRow(customer_id, content, created_by) ==
    [customer_id |-> customer_id, content |-> content, created_by |-> created_by]

(* .filter(Note.id == note_id, Note.customer_id == customer_id).first() *)
note_of(ns, note_id, customer_id) ==
    IF note_id \in DOMAIN ns /\ ns[note_id].customer_id = customer_id
    THEN note_id ELSE None

(* the customer check every note route starts with *)
NoteDenied(op, token, customer_id) ==
    LET cur == get_current_user(token) IN
    IF ~cur.ok
    THEN Reject(op, customer_id, cur)
    ELSE /\ owned_customer(customers, customer_id, cur.user) = None
         /\ last' = Resp(op, cur.user, customer_id, 404, "Customer not found", 0)
         /\ UNCHANGED Same

NoteAdmitted(token, customer_id) ==
    /\ get_current_user(token).ok
    /\ owned_customer(customers, customer_id, get_current_user(token).user) # None

add_note(token, customer_id, content) ==
    \/ NoteDenied("add_note", token, customer_id)
    \/ /\ NoteAdmitted(token, customer_id)
       /\ LET id == NewRowId(notes)
              user == get_current_user(token).user
          IN /\ id <= MaxNotes
             /\ notes' = notes @@ (id :> NewNoteRow(customer_id, content, user))
             /\ last' = Resp("add_note", user, customer_id, 200, "", id)
       /\ UNCHANGED <<users, clients, tokens, nextUserId, nextTok, minted, now, rq,
                      hist, SECRET_KEY, customers>>

list_notes(token, customer_id) ==
    \/ NoteDenied("list_notes", token, customer_id)
    \/ /\ NoteAdmitted(token, customer_id)
       /\ last' = Resp("list_notes", get_current_user(token).user, customer_id, 200, "",
                       NotesOf(notes, customer_id))
       /\ UNCHANGED Same

get_note(token, customer_id, note_id) ==
    \/ NoteDenied("get_note", token, customer_id)
    \/ /\ NoteAdmitted(token, customer_id)
       /\ LET user == get_current_user(token).user IN
          IF note_of(notes, note_id, customer_id) = None
          THEN last' = Resp("get_note", user, customer_id, 404, "Note not found", note_id)
          ELSE last' = Resp("get_note", user, customer_id, 200, "", note_id)
       /\ UNCHANGED Same

update_note(token, customer_id, note_id, content) ==
    \/ NoteDenied("update_note", token, customer_id)
    \/ /\ NoteAdmitted(token, customer_id)
       /\ LET user == get_current_user(token).user IN
          IF note_of(notes, note_id, customer_id) = None
          THEN /\ last' = Resp("update_note", user, customer_id, 404, "Note not found",
                               note_id)
               /\ UNCHANGED notes
          ELSE /\ notes' = [notes EXCEPT ![note_id].content = content]
               /\ last' = Resp("update_note", user, customer_id, 200, "", note_id)
       /\ UNCHANGED <<users, clients, tokens, nextUserId, nextTok, minted, now, rq,
                      hist, SECRET_KEY, customers>>

delete_note(token, customer_id, note_id) ==
    \/ NoteDenied("delete_note", token, customer_id)
    \/ /\ NoteAdmitted(token, customer_id)
       /\ LET user == get_current_user(token).user IN
          IF note_of(notes, note_id, customer_id) = None
          THEN /\ last' = Resp("delete_note", user, customer_id, 404, "Note not found",
                               note_id)
               /\ UNCHANGED notes
          ELSE /\ notes' = [k \in DOMAIN notes \ {note_id} |-> notes[k]]
               /\ last' = Resp("delete_note", user, customer_id, 204, "", note_id)
       /\ UNCHANGED <<users, clients, tokens, nextUserId, nextTok, minted, now, rq,
                      hist, SECRET_KEY, customers>>

----------------------------------------------------------------------------

UserIds == 1..MaxUsers

(* passwords offered at registration; the admin's own is never offered *)
NewPasswords == Passwords \ {AdminPassword}

(* The session machinery: issue, rotate and revoke refresh tokens, one     *)
(* request at a time                                                      *)
Next ==
    \/ \E e \in Emails, p \in NewPasswords : register(e, p)
    \/ \E e \in Emails, p \in Passwords, ua \in Devices : login_for_access_token(e, p, ua)
    \/ \E t \in TokenStrings, ua \in Devices : refresh_access_token(t, ua)
    \/ \E b \in Bearers, id \in TokenStrings : revoke_token(b, id)
    \/ \E b \in Bearers : logout(b)
    \/ \E b \in Bearers : logout_all_devices(b)

Spec == Init /\ [][Next]_vars

(* The same machinery under a moving clock: tokens expire and are swept *)
NextExpiry ==
    \/ \E d \in Jumps : Advance(d)
    \/ \E e \in Emails, p \in NewPasswords : register(e, p)
    \/ \E e \in Emails, p \in Passwords, ua \in Devices : login_for_access_token(e, p, ua)
    \/ \E t \in TokenStrings, ua \in Devices : refresh_access_token(t, ua)
    \/ \E b \in Bearers : logout(b)
    \/ cleanup_endpoint

SpecExpiry == Init /\ [][NextExpiry]_vars

(* Sessions opened from several devices, under a moving clock *)
NextDevices ==
    \/ \E d \in Jumps : Advance(d)
    \/ \E e \in Emails, p \in Passwords, ua \in UserAgents :
          login_for_access_token(e, p, ua)
    \/ \E t \in TokenStrings, ua \in UserAgents : refresh_access_token(t, ua)

SpecDevices == Init /\ [][NextDevices]_vars

(* Machine callers: client credentials next to password logins *)
NextClient ==
    \/ \E e \in Emails, p \in NewPasswords : register(e, p)
    \/ \E e \in Emails, p \in Passwords, ua \in Devices : login_for_access_token(e, p, ua)
    \/ \E c \in UserIds, sec \in UserIds \cup {None} : get_oauth2_token(c, sec)
    \/ \E c \in UserIds : deactivate_client(c)
    \/ \E b \in Bearers, u \in UserIds : toggle_user_status(b, u)

SpecClient == Init /\ [][NextClient]_vars

(* Sessions opened with client credentials and with passwords, side by side *)
NextMachine ==
    \/ \E e \in Emails, p \in NewPasswords : register(e, p)
    \/ \E e \in Emails, p \in Passwords, ua \in Devices : login_for_access_token(e, p, ua)
    \/ \E c \in UserIds, sec \in UserIds \cup {None} : get_oauth2_token(c, sec)
    \/ \E t \in TokenStrings, ua \in Devices : refresh_access_token(t, ua)
    \/ \E b \in Bearers : get_my_tokens(b)
    \/ \E b \in Bearers : logout_all_devices(b)

SpecMachine == Init /\ [][NextMachine]_vars

(* Refresh requests served concurrently by several workers *)
NextRace ==
    \/ \E e \in Emails, p \in Passwords, ua \in Devices : login_for_access_token(e, p, ua)
    \/ \E s \in Slots, t \in TokenStrings, ua \in Devices : RefreshLookup(s, t, ua)
    \/ \E s \in Slots : RefreshGetUser(s)
    \/ \E s \in Slots : RefreshInvalidate(s)
    \/ \E s \in Slots : RefreshCreate(s)
    \/ \E s \in Slots : RefreshTouch(s)
    \/ \E b \in Bearers, id \in TokenStrings : revoke_token(b, id)
    \/ \E b \in Bearers : logout_all_devices(b)

SpecRace == Init /\ [][NextRace]_vars

(* request bodies of PUT /api/admin/users/{id}: one field set per request *)
UserUpdates ==
    {p \in [role : RoleUpdates, is_active : ActiveUpdates] :
        (p.role = Unset) # (p.is_active = Unset)}

(* Identities, roles and the admin operations on them *)
NextIdentity ==
    \/ \E e \in Emails, p \in NewPasswords : register(e, p)
    \/ \E e \in Emails, p \in Passwords, ua \in Devices : login_for_access_token(e, p, ua)
    \/ \E b \in Bearers : read_me(b)
    \/ \E b \in Bearers, u \in UserIds, p \in UserUpdates :
          update_user(b, u, p.role, p.is_active)
    \/ \E b \in Bearers, u \in UserIds : delete_user(b, u)
    \/ \E b \in Bearers, u \in UserIds, r \in UserRole : promote_user(b, u, r)
    \/ \E b \in Bearers, u \in UserIds : toggle_user_status(b, u)

SpecIdentity == Init /\ [][NextIdentity]_vars

(* Roles and flags of identities that stay registered, and the role check *)
NextRoles ==
    \/ \E e \in Emails, p \in NewPasswords : register(e, p)
    \/ \E e \in Emails, p \in Passwords, ua \in Devices : login_for_access_token(e, p, ua)
    \/ \E b \in Bearers, u \in UserIds, p \in UserUpdates :
          update_user(b, u, p.role, p.is_active)
    \/ \E b \in Bearers, u \in UserIds, r \in UserRole : promote_user(b, u, r)
    \/ \E b \in Bearers, u \in UserIds : toggle_user_status(b, u)
    \/ \E u \in UserIds, r \in UserRole : CheckPermissions(u, r)

SpecRoles == Init /\ [][NextRoles]_vars

(* Self-service session management of several identities *)
NextSessions ==
    \/ \E e \in Emails, p \in NewPasswords : register(e, p)
    \/ \E e \in Emails, p \in Passwords, ua \in Devices : login_for_access_token(e, p, ua)
    \/ \E b \in Bearers : get_my_tokens(b)
    \/ \E b \in Bearers, id \in TokenStrings : revoke_token(b, id)
    \/ \E b \in Bearers : logout(b)

SpecSessions == Init /\ [][NextSessions]_vars

(* Revocation by token string, on stores that hold active, inactive and   *)
(* removed tokens                                                          *)
NextRevoke ==
    \/ \E e \in Emails, p \in Passwords, ua \in Devices : login_for_access_token(e, p, ua)
    \/ \E b \in Bearers : logout(b)
    \/ \E b \in Bearers, id \in TokenStrings : revoke_token(b, id)
    \/ \E t \in TokenStrings : Invalidate(t)

SpecRevoke == Init /\ [][NextRevoke]_vars

(* The sweep on stores that hold expired and unexpired, active and        *)
(* inactive records side by side                                           *)
NextSweep ==
    \/ \E d \in Jumps : Advance(d)
    \/ \E e \in Emails, p \in Passwords, ua \in Devices : login_for_access_token(e, p, ua)
    \/ \E c \in UserIds, sec \in UserIds : get_oauth2_token(c, sec)
    \/ \E t \in TokenStrings, ua \in Devices : refresh_access_token(t, ua)
    \/ cleanup_endpoint

SpecSweep == Init /\ [][NextSweep]_vars

(* Sweeps and refresh requests served concurrently, under a moving clock *)
NextSweepRace ==
    \/ \E d \in Jumps : Advance(d)
    \/ \E e \in Emails, p \in Passwords, ua \in Devices : login_for_access_token(e, p, ua)
    \/ \E s \in Slots, t \in TokenStrings, ua \in Devices : RefreshLookup(s, t, ua)
    \/ \E s \in Slots : RefreshGetUser(s)
    \/ \E s \in Slots : RefreshInvalidate(s)
    \/ \E s \in Slots : RefreshCreate(s)
    \/ \E s \in Slots : RefreshTouch(s)
    \/ \E s \in Slots : SweepSelect(s)
    \/ \E s \in Slots : SweepDelete(s)

SpecSweepRace == Init /\ [][NextSweepRace]_vars

(* Access tokens minted and verified around their expiry *)
NextCodec ==
    \/ \E u \in UserIds, t \in MintInstants : MintAccessToken(u, t)
    \/ \E e \in Elapsed : VerifyAccessToken(e)

SpecCodec == Init /\ [][NextCodec]_vars

(* Requests that carry any kind of bearer token *)
NextAuthorize ==
    \/ \E e \in Emails, p \in NewPasswords : register(e, p)
    \/ \E e \in Emails, p \in Passwords, ua \in Devices : login_for_access_token(e, p, ua)
    \/ \E b \in Bearers, u \in UserIds : delete_user(b, u)
    \/ \E b \in WireTokens : Authorize(b)
    \/ \E b \in WireTokens : read_me(b)
    \/ \E b \in WireTokens : logout(b)

SpecAuthorize == Init /\ [][NextAuthorize]_vars

(* The credential hasher on passwords of every length *)
NextPasswords ==
    \/ \E p \in PasswordInputs : HashPassword(p)
    \/ \E p \in PasswordInputs, q \in PasswordInputs : VerifyPassword(p, q)

SpecPasswords == Init /\ [][NextPasswords]_vars

(* Startup with any signing secret, then the requests the service takes *)
NextBoot ==
    \/ \E env \in EnvValues, dotenv \in EnvValues : import_auth(env, dotenv)
    \/ Serving /\ \E e \in Emails, p \in NewPasswords : register(e, p)
    \/ Serving /\ \E e \in Emails, p \in Passwords, ua \in Devices :
                     login_for_access_token(e, p, ua)
    \/ Serving /\ \E b \in WireTokens : read_me(b)

SpecBoot == InitBoot /\ [][NextBoot]_vars

(* Every guard a route can depend on, on identities of every role and flag *)
NextGuards ==
    \/ \E e \in Emails, p \in NewPasswords : register(e, p)
    \/ \E e \in Emails, p \in Passwords, ua \in Devices : login_for_access_token(e, p, ua)
    \/ \E b \in Bearers, u \in UserIds, r \in UserRole : promote_user(b, u, r)
    \/ \E b \in Bearers, u \in UserIds : toggle_user_status(b, u)
    \/ \E name \in Dependencies, b \in WireTokens : Depends(name, b)

SpecGuards == Init /\ [][NextGuards]_vars

(* the two guards that require a role *)
RoleGuards == {"get_admin_user", "get_premium_user"}

(* Routes behind a role guard, called by identities of every role *)
NextPremium ==
    \/ \E e \in Emails, p \in NewPasswords : register(e, p)
    \/ \E e \in Emails, p \in Passwords, ua \in Devices : login_for_access_token(e, p, ua)
    \/ \E b \in Bearers, u \in UserIds, r \in UserRole : promote_user(b, u, r)
    \/ \E name \in RoleGuards, b \in Bearers : Depends(name, b)
    \/ \E b \in Bearers : create_customer(b, "acme")

SpecPremium == Init /\ [][NextPremium]_vars

CustomerIds == 1..MaxCustomers

NoteIds == 1..MaxNotes

(* Customers and notes of two owners, read and written by both; two of    *)
(* the routes are also called without a valid token                       *)
NextCustomers ==
    \/ \E b \in Bearers \ {BadBearer} : create_customer(b, "acme")
    \/ \E b \in Bearers \ {BadBearer}, skip \in Skips, search \in SearchTerms :
          list_customers(b, skip, search)
    \/ \E b \in Bearers, c \in CustomerIds : get_customer(b, c)
    \/ \E b \in Bearers \ {BadBearer}, c \in CustomerIds, n \in {"acme", Unset} :
          update_customer(b, c, n)
    \/ \E b \in Bearers \ {BadBearer}, c \in CustomerIds : delete_customer(b, c)
    \/ \E b \in Bearers \ {BadBearer}, c \in CustomerIds : add_note(b, c, "called")
    \/ \E b \in Bearers \ {BadBearer}, c \in CustomerIds : list_notes(b, c)
    \/ \E b \in Bearers \ {BadBearer}, c \in CustomerIds, k \in NoteIds :
          get_note(b, c, k)
    \/ \E b \in Bearers \ {BadBearer}, c \in CustomerIds, k \in NoteIds :
          update_note(b, c, k, "mailed")
    \/ \E b \in Bearers, c \in CustomerIds, k \in NoteIds : delete_note(b, c, k)

SpecCustomers == InitCrm /\ [][NextCustomers]_vars

(* The three ways to a token pair, next to an admin who deactivates and    *)
(* reactivates identities                                                 *)
NextDeactivated ==
    \/ \E e \in Emails, p \in NewPasswords : register(e, p)
    \/ \E e \in Emails, p \in Passwords, ua \in Devices : login_for_access_token(e, p, ua)
    \/ \E t \in TokenStrings, ua \in Devices : refresh_access_token(t, ua)
    \/ \E c \in UserIds, sec \in UserIds : get_oauth2_token(c, sec)
    \/ \E b \in Bearers, u \in UserIds : toggle_user_status(b, u)

SpecDeactivated == Init /\ [][NextDeactivated]_vars

(* Access tokens presented after the sessions they came with have ended *)
NextAccess ==
    \/ \E e \in Emails, p \in NewPasswords : register(e, p)
    \/ \E e \in Emails, p \in Passwords, ua \in Devices : login_for_access_token(e, p, ua)
    \/ \E b \in Bearers : logout(b)
    \/ \E b \in Bearers : logout_all_devices(b)
    \/ \E b \in Bearers, id \in TokenStrings : revoke_token(b, id)
    \/ \E b \in WireTokens : Authorize(b)

SpecAccess == Init /\ [][NextAccess]_vars

(* An admin deletes identities while their tokens, clients and one refresh *)
(* request are in use                                                     *)
OneWorker == {CHOOSE s \in Slots : TRUE}

NextDeleted ==
    \/ \E e \in Emails, p \in NewPasswords : register(e, p)
    \/ \E e \in Emails, p \in Passwords, ua \in Devices : login_for_access_token(e, p, ua)
    \/ \E s \in OneWorker, t \in TokenStrings, ua \in Devices : RefreshLookup(s, t, ua)
    \/ \E s \in OneWorker : RefreshGetUser(s)
    \/ \E s \in OneWorker : RefreshInvalidate(s)
    \/ \E s \in OneWorker : RefreshCreate(s)
    \/ \E s \in OneWorker : RefreshTouch(s)
    \/ \E c \in UserIds, sec \in UserIds : get_oauth2_token(c, sec)
    \/ \E b \in Bearers, u \in UserIds : delete_user(b, u)
    \/ \E b \in Bearers : Authorize(b)

SpecDeleted == Init /\ [][NextDeleted]_vars

----------------------------------------------------------------------------
(* Properties *)

Redeemed(t) == t \in DOMAIN hist /\ hist[t].wins >= 1

LoggedOutAll(t) == t \in DOMAIN hist /\ hist[t].logged_out_all

Usable(toks, id) == toks[id].is_active = "true" /\ ~(toks[id].expires_at < now)

(* C1: a refresh token is single-use.  A refresh presented with a token   *)
(* string that an earlier refresh has redeemed fails with 401 "Invalid    *)
(* refresh token" and neither changes a record nor issues a token,        *)
(* whatever requests were served in between.                              *)
C1_SingleUse ==
    [][(last'.op = "refresh" /\ Redeemed(last'.arg))
         => /\ last'.status = 401
            /\ last'.detail = "Invalid refresh token"
            /\ UNCHANGED <<tokens, nextTok, minted>>]_vars

C1_Witness ==
    /\ last.op = "refresh"
    /\ last.status = 401
    /\ Redeemed(last.arg)

(* C2: of two interleaved refresh requests presenting the same active     *)
(* token at most one succeeds: no token string is redeemed twice.         *)
C2_OneWinner == \A t \in DOMAIN hist : hist[t].wins <= 1

(* C3: after logout_all of an identity, a refresh presented with any      *)
(* token issued to it before the call fails with 401 "Invalid refresh     *)
(* token"; logout_all leaves the records of other identities as they were. *)
C3_LogoutAllRevokes ==
    [][/\ (last'.op = "refresh" /\ LoggedOutAll(last'.arg))
            => /\ last'.status = 401
               /\ last'.detail = "Invalid refresh token"
               /\ UNCHANGED <<tokens, nextTok, minted>>
       /\ (last'.op = "logout_all" /\ last'.status = 200)
            => \A id \in DOMAIN tokens :
                  tokens[id].user_id # last'.actor
                     => id \in DOMAIN tokens' /\ tokens'[id] = tokens[id]]_vars

C3_Witness ==
    /\ last.op = "refresh"
    /\ last.status = 401
    /\ LoggedOutAll(last.arg)
    /\ \E id \in DOMAIN tokens :
          tokens[id].user_id # hist[last.arg].owner /\ Usable(tokens, id)

(* C4, as stated: the count returned by logout_all is the number of the   *)
(* caller's refresh tokens that were active just before the call.         *)
C4_CountsActive ==
    [][(last'.op = "logout_all" /\ last'.status = 200)
         => last'.n = Cardinality(ActiveTokensOf(tokens, last'.actor))]_vars

(* C4, amended: the count returned by logout_all is the number of         *)
(* refresh-token records of the caller, active or not, that were stored   *)
(* just before the call.                                                   *)
C4_CountsOwned ==
    [][(last'.op = "logout_all" /\ last'.status = 200)
         => last'.n = Cardinality({id \in DOMAIN tokens :
                                      tokens[id].user_id = last'.actor})]_vars

C4_Witness ==
    /\ last.op = "logout_all"
    /\ last.status = 200
    /\ last.n = 2
    /\ Cardinality({t \in DOMAIN hist : hist[t].owner = last.actor}) = 2
    /\ \E t \in DOMAIN hist : hist[t].owner = last.actor /\ Redeemed(t)

StoppedBy(id) ==
    /\ tokens[id].is_active = "true"
    /\ (id \notin DOMAIN tokens' \/ tokens'[id].is_active # "true")

AuthenticatedOps ==
    {"read_me", "get_my_tokens", "revoke_token", "logout", "logout_all",
     "update_user", "delete_user", "promote_user", "toggle_user_status"}

(* C6: no request passes get_current_user or get_admin_user as an         *)
(* identity whose active flag is not "true".                              *)
C6_ActiveGate ==
    [][(last'.op \in AuthenticatedOps /\ last'.actor # None)
         => users[last'.actor].is_active = "true"]_vars

AllowedPairs ==
    {<<BASIC_USER, BASIC_USER>>,
     <<PREMIUM_USER, BASIC_USER>>, <<PREMIUM_USER, PREMIUM_USER>>,
     <<ADMIN, BASIC_USER>>, <<ADMIN, PREMIUM_USER>>, <<ADMIN, ADMIN>>}

(* C7: check_user_permissions allows exactly the pairs (role, required)   *)
(* with basic < premium < admin and role at least the required one.       *)
C7_RoleOrder ==
    last.op = "check_user_permissions"
       => (last.n = 1 <=> last.arg \in AllowedPairs)

C7_Witness ==
    /\ last.op = "check_user_permissions"
    /\ last.arg = <<PREMIUM_USER, ADMIN>>
    /\ last.n = 0

(* C8: no update_user, toggle_user_status or delete_user call of an admin *)
(* on their own record leaves that record inactive or removed.            *)
C8_NoSelfDeactivation ==
    [][(/\ last'.op \in {"update_user", "toggle_user_status", "delete_user"}
        /\ last'.actor # None
        /\ last'.arg = last'.actor
        /\ users[last'.actor].is_active = "true")
         => /\ last'.actor \in DOMAIN users'
            /\ users'[last'.actor].is_active = "true"]_vars

(* C9: a step changes the role or the active flag of a stored identity    *)
(* only if it is the request of an identity whose role is admin.          *)
C9_AdminOnly ==
    [][\A u \in DOMAIN users \cap DOMAIN users' :
          (users'[u].role # users[u].role \/ users'[u].is_active # users[u].is_active)
             => /\ last'.actor \in DOMAIN users
                /\ users[last'.actor].role = ADMIN]_vars

C9_Witness ==
    /\ last.op = "promote_user"
    /\ last.status = 200
    /\ last.detail # last.n
    /\ last.arg # last.actor

(* C10: a failed login answers 401 "Incorrect email or password" whether  *)
(* the email is unregistered or the password wrong, and changes nothing   *)
(* in the store (no token stored, no sweep).                              *)
C10_LoginFailure ==
    [][(last'.op = "login" /\ last'.status # 200)
         => /\ last'.status = 401
            /\ last'.detail = "Incorrect email or password"
            /\ last'.n = 0
            /\ UNCHANGED <<users, clients, tokens, nextTok, minted>>]_vars

C10_Witness ==
    /\ last.op = "login"
    /\ last.status = 401
    /\ get_user_by_email(users, last.arg) = None
    /\ ExpiredIds(tokens) # {}

C12_Rotation ==
    [][(last'.op = "refresh" /\ last'.status = 200)
         => LET t == last'.arg
                nt == last'.n
            IN /\ t \in DOMAIN tokens /\ tokens[t].is_active = "true"
               /\ t \in DOMAIN tokens' /\ tokens'[t].is_active = "false"
               /\ DOMAIN tokens' \ DOMAIN tokens = {nt}
               /\ tokens'[nt].token = nt
               /\ tokens'[nt].is_active = "true"
               /\ tokens'[nt].user_id = tokens[t].user_id
               /\ \A id \in DOMAIN tokens :
                     tokens[id].is_active # "true"
                        => (id \in DOMAIN tokens' => tokens'[id].is_active # "true")
               /\ nt # t]_vars

C12_Witness ==
    /\ last.op = "refresh"
    /\ last.status = 200
    /\ last.arg \in DOMAIN tokens
    /\ tokens[last.arg].is_active = "false"
    /\ last.n \in DOMAIN tokens
    /\ tokens[last.n].is_active = "true"
    /\ tokens[last.n].user_id = tokens[last.arg].user_id

Expired(toks, id) == id \in DOMAIN toks /\ toks[id].expires_at < now

(* C13: a refresh presented with a token whose record is stored but past  *)
(* its expiry removes that record, answers with an error, and neither     *)
(* issues an access token nor stores a new refresh token.                 *)
C13_ExpiredRemoved ==
    [][(last'.op = "refresh" /\ Expired(tokens, last'.arg))
         => /\ last'.arg \notin DOMAIN tokens'
            /\ last'.status # 200
            /\ last'.access_token = NoAccessToken
            /\ DOMAIN tokens' \subseteq DOMAIN tokens
            /\ UNCHANGED <<nextTok, minted>>]_vars

(* C14: expiry is checked before the active flag.  A refresh presented    *)
(* with a token whose record is both past its expiry and inactive is      *)
(* answered as expired, 401 "Refresh token expired", and the record is    *)
(* removed.                                                                *)
C14_ExpiryFirst ==
    [][(/\ last'.op = "refresh"
        /\ Expired(tokens, last'.arg)
        /\ tokens[last'.arg].is_active # "true")
         => /\ last'.status = 401
            /\ last'.detail = "Refresh token expired"
            /\ last'.arg \notin DOMAIN tokens']_vars

(* C15: every refresh that fails gets the answer an unknown token gets,   *)
(* 401 "Invalid refresh token", whether the token was never issued, was   *)
(* rotated or revoked, or is past its expiry.                             *)
C15_GenericFailure ==
    [][(last'.op = "refresh" /\ last'.status # 200)
         => /\ last'.status = 401
            /\ last'.detail = "Invalid refresh token"]_vars

Dead(toks, t) == t \notin DOMAIN toks \/ toks[t].is_active # "true"

(* C16: no way back.  Once the record of an issued refresh token is       *)
(* inactive or no longer stored, it is inactive or not stored after every *)
(* later step, and a refresh request presented with that string from then *)
(* on is refused.                                                          *)
C16_NoWayBack ==
    [][\A t \in DOMAIN hist :
          Dead(tokens, t)
             => /\ Dead(tokens', t)
                /\ (/\ last'.op \in {"refresh", "refresh_lookup"}
                    /\ last'.arg = t
                    /\ \A s \in Slots : rq[s].tok # t)
                      => (last'.op = "refresh" /\ last'.status # 200)]_vars

C16_Witness ==
    /\ last.op = "refresh"
    /\ last.status = 401
    /\ last.arg \in DOMAIN hist
    /\ last.arg \notin DOMAIN tokens
    /\ \E t \in DOMAIN tokens : tokens[t].is_active = "false"
    /\ \E t \in DOMAIN tokens : tokens[t].is_active = "true"

(* C17: sessions are independent.  A login leaves every stored record     *)
(* that has not expired as it was; a refresh leaves every record but the  *)
(* presented one as it was; and a refresh presented with a token that is  *)
(* active and not expired succeeds whatever other tokens its identity     *)
(* holds.                                                                  *)
C17_Independent ==
    [][/\ (last'.op = "login" /\ last'.status = 200)
            => \A id \in DOMAIN tokens :
                  ~Expired(tokens, id)
                     => id \in DOMAIN tokens' /\ tokens'[id] = tokens[id]
       /\ last'.op = "refresh"
            => \A id \in DOMAIN tokens :
                  id # last'.arg
                     => id \in DOMAIN tokens' /\ tokens'[id] = tokens[id]
       /\ (/\ last'.op = "refresh"
           /\ last'.arg \in DOMAIN tokens
           /\ Usable(tokens, last'.arg))
            => last'.status = 200]_vars

C17_Witness ==
    /\ last.op = "refresh"
    /\ last.status = 200
    /\ \E id \in DOMAIN tokens :
          /\ id # last.arg /\ id # last.n
          /\ tokens[id].user_id = tokens[last.arg].user_id
          /\ tokens[id].device_info # tokens[last.arg].device_info
          /\ tokens[id].last_used_at = Never
          /\ Usable(tokens, id)

(* the presented pair matches a stored, active client whose identity is   *)
(* stored and active                                                       *)
GoodClient(cs, us, client_id, client_secret) ==
    \E k \in DOMAIN cs :
        /\ cs[k].client_id = client_id
        /\ cs[k].client_secret = client_secret
        /\ cs[k].is_active = "true"
        /\ cs[k].user_id \in DOMAIN us
        /\ us[cs[k].user_id].is_active = "true"

(* C18: client-credentials login succeeds only for a pair that matches an *)
(* active client bound to an active identity; any other request, such as  *)
(* the right secret of a deactivated client or a client of an inactive    *)
(* identity, is answered 401, stores no refresh token and leaves the      *)
(* client's last-used time as it was.                                      *)
C18_ClientLogin ==
    [][last'.op = "oauth2_token"
         => IF GoodClient(clients, users, last'.arg[1], last'.arg[2])
            THEN last'.status = 200
            ELSE /\ last'.status = 401
                 /\ last'.access_token = NoAccessToken
                 /\ UNCHANGED <<tokens, clients, nextTok, minted>>]_vars

C18_Witness ==
    /\ last.op = "oauth2_token"
    /\ last.status = 401
    /\ \E k \in DOMAIN clients :
          /\ clients[k].client_id = last.arg[1]
          /\ clients[k].client_secret = last.arg[2]
          /\ clients[k].is_active = "false"
          /\ clients[k].last_used_at = Never
          /\ users[clients[k].user_id].is_active = "true"
    /\ \E k \in DOMAIN clients :
          /\ clients[k].is_active = "true"
          /\ users[clients[k].user_id].is_active # "true"

(* C19: a client-credentials login opens a session like a password login. *)
(* On success it returns a full pair and stores one new active record for *)
(* the client's identity; a record stored without a device descriptor is  *)
(* redeemed by refresh, listed by get_my_tokens and removed by logout_all *)
(* like any other.                                                         *)
C19_SameMachinery ==
    [][/\ (last'.op = "oauth2_token" /\ last'.status = 200)
            => LET rt == last'.n
                   uid == clients[CHOOSE k \in DOMAIN clients :
                                     clients[k].client_id = last'.arg[1]].user_id
               IN /\ last'.access_token = [kind |-> "valid", sub |-> uid]
                  /\ last'.detail = "bearer"
                  /\ last'.expires_in = 3600
                  /\ rt \notin DOMAIN hist
                  /\ DOMAIN tokens' \ DOMAIN tokens = {rt}
                  /\ tokens'[rt].user_id = uid
                  /\ tokens'[rt].is_active = "true"
                  /\ tokens'[rt].expires_at = now + 30
       /\ (/\ last'.op = "refresh"
           /\ last'.arg \in DOMAIN tokens
           /\ Usable(tokens, last'.arg)
           /\ tokens[last'.arg].user_id \in DOMAIN users)
            => /\ last'.status = 200
               /\ tokens'[last'.arg].is_active = "false"
               /\ tokens'[last'.n].user_id = tokens[last'.arg].user_id
       /\ (last'.op = "get_my_tokens" /\ last'.status = 200)
            => last'.arg = {id \in DOMAIN tokens :
                              /\ tokens[id].user_id = last'.actor
                              /\ tokens[id].is_active = "true"}
       /\ (last'.op = "logout_all" /\ last'.status = 200)
            => \A id \in DOMAIN tokens' : tokens'[id].user_id # last'.actor]_vars

C19_Witness ==
    /\ last.op = "refresh"
    /\ last.status = 200
    /\ tokens[last.arg].device_info = NoDevice
    /\ tokens[last.arg].is_active = "false"
    /\ Usable(tokens, last.n)

(* C20: a refresh is all or nothing.  When a refresh request ends without *)
(* returning a pair, the store holds no refresh token that the request    *)
(* stored.                                                                 *)
C20_Atomic ==
    [][\A s \in Slots :
          (rq[s].pc # "idle" /\ rq'[s].pc = "idle" /\ last'.status # 200)
             => (rq[s].new = None \/ rq[s].new \notin DOMAIN tokens')]_vars

(* C21: sessions are seen and revoked by their owner only.  get_my_tokens *)
(* returns exactly the records that are owned by the caller and flagged   *)
(* active; revoke_token with the id of a record owned by another identity *)
(* is answered 404 "Token not found" and leaves every record as it was.   *)
C21_OwnSessionsOnly ==
    [][/\ (last'.op = "get_my_tokens" /\ last'.status = 200)
            => /\ last'.arg = {id \in DOMAIN tokens :
                                  /\ tokens[id].user_id = last'.actor
                                  /\ tokens[id].is_active = "true"}
               /\ last'.n = Cardinality(last'.arg)
               /\ UNCHANGED tokens
       /\ (/\ last'.op = "revoke_token"
           /\ last'.actor # None
           /\ last'.arg \in DOMAIN tokens
           /\ tokens[last'.arg].user_id # last'.actor)
            => /\ last'.status = 404
               /\ last'.detail = "Token not found"
               /\ UNCHANGED tokens]_vars

C21_Witness ==
    /\ last.op = "revoke_token"
    /\ last.status = 404
    /\ last.arg \in DOMAIN tokens
    /\ tokens[last.arg].user_id # last.actor
    /\ tokens[last.arg].is_active = "true"
    /\ \E id \in DOMAIN tokens :
          tokens[id].user_id = last.actor /\ tokens[id].is_active = "true"
    /\ \E id \in DOMAIN tokens :
          tokens[id].user_id = last.actor /\ tokens[id].is_active = "false"

ClientsOf(cs, user_id) == {k \in DOMAIN cs : cs[k].user_id = user_id}

(* C22: a successful register stores one new identity, with role          *)
(* basic_user and active flag "true", and exactly one client credential   *)
(* bound to it, active, with which a client-credentials login succeeds    *)
(* at once; a register refused for a duplicate email or for a password    *)
(* outside the length policy leaves users, clients and tokens as they     *)
(* were.                                                                   *)
C22_Register ==
    [][/\ (last'.op = "register" /\ last'.status = 200)
            => LET u == last'.n IN
               /\ get_user_by_email(users, last'.arg) = None
               /\ DOMAIN users' \ DOMAIN users = {u}
               /\ \A v \in DOMAIN users : users'[v] = users[v]
               /\ users'[u].email = last'.arg
               /\ users'[u].role = BASIC_USER
               /\ users'[u].is_active = "true"
               /\ \E p \in Passwords :
                     /\ PwBytes(p) <= 72 /\ PwChars(p) >= 8
                     /\ verify_password(p, users'[u].hashed_password)
               /\ Cardinality(ClientsOf(clients', u)) = 1
               /\ DOMAIN clients' \ DOMAIN clients = ClientsOf(clients', u)
               /\ \A k \in DOMAIN clients : clients'[k] = clients[k]
               /\ \A k \in ClientsOf(clients', u) :
                     GoodClient(clients', users', clients'[k].client_id,
                                clients'[k].client_secret)
               /\ UNCHANGED tokens
       /\ (last'.op = "register" /\ last'.status # 200)
            => UNCHANGED <<users, clients, tokens, nextUserId>>
       /\ (last'.op = "register" /\ get_user_by_email(users, last'.arg) # None)
            => last'.status # 200
       /\ (/\ last'.op = "oauth2_token"
           /\ \E k \in DOMAIN clients :
                 /\ clients[k] = NewClientRow(clients[k].user_id)
                 /\ <<clients[k].client_id, clients[k].client_secret>> = last'.arg
                 /\ clients[k].user_id \in DOMAIN users
                 /\ users[clients[k].user_id].is_active = "true")
            => /\ last'.status = 200
               /\ last'.access_token.kind = "valid"
               /\ clients[last'.access_token.sub].client_id = last'.arg[1]]_vars

C22_Witness ==
    /\ last.op = "oauth2_token"
    /\ last.status = 200
    /\ \E k \in DOMAIN clients :
          /\ <<clients[k].client_id, clients[k].client_secret>> = last.arg
          /\ clients[k].user_id # 1
          /\ users[clients[k].user_id].role = BASIC_USER
          /\ users[clients[k].user_id].is_active = "true"
          /\ Cardinality(ClientsOf(clients, clients[k].user_id)) = 1
          /\ last.access_token.sub = clients[k].user_id

(* C23: invalidate_refresh_token is idempotent.  Called with the string  *)
(* of an active record it marks that record inactive and changes nothing  *)
(* else; called with the string of an inactive record, or of no record,   *)
(* it changes nothing and returns normally; called again on the store it  *)
(* produced, it gives that store back.                                     *)
C23_RevokeIdempotent ==
    [][last'.op = "invalidate_refresh_token"
         => LET t == last'.arg IN
            /\ last'.status = 200
            /\ tokens' = IF t \in DOMAIN tokens /\ tokens[t].is_active = "true"
                         THEN [tokens EXCEPT ![t].is_active = "false"]
                         ELSE tokens
            /\ invalidate_refresh_token(tokens', t) = tokens'
            /\ get_refresh_token_db(tokens', t) = None]_vars

C23_Witness ==
    /\ last.op = "invalidate_refresh_token"
    /\ last.n = None
    /\ last.arg \in DOMAIN tokens
    /\ tokens[last.arg].is_active = "false"
    /\ \E id \in DOMAIN tokens : tokens[id].is_active = "true"
    /\ \E t \in DOMAIN hist : t \notin DOMAIN tokens

(* C24: the sweep removes every record whose expiry lies before the       *)
(* current time, whether flagged active or not, leaves every other record *)
(* as it was, and returns the number of records it removed; a sweep that  *)
(* directly follows a sweep removes nothing and returns 0.                *)
C24_Sweep ==
    [][last'.op = "cleanup"
         => /\ \A id \in DOMAIN tokens :
                  IF tokens[id].expires_at < now
                  THEN id \notin DOMAIN tokens'
                  ELSE id \in DOMAIN tokens' /\ tokens'[id] = tokens[id]
            /\ DOMAIN tokens' \subseteq DOMAIN tokens
            /\ last'.status = 200
            /\ last'.n = Cardinality(DOMAIN tokens \ DOMAIN tokens')
            /\ cleanup_expired_tokens(tokens') = tokens'
            /\ last.op = "cleanup" => (last'.n = 0 /\ tokens' = tokens)]_vars

C24_Witness ==
    /\ last.op = "cleanup"
    /\ last.n = 2
    /\ \E t \in DOMAIN hist : t \notin DOMAIN tokens /\ Redeemed(t)
    /\ \E t \in DOMAIN hist : t \notin DOMAIN tokens /\ ~Redeemed(t)
    /\ \E id \in DOMAIN tokens : tokens[id].expires_at > now

(* C25: sweeps are safe next to each other and next to refresh requests.  *)
(* A sweep removes or changes no record that has not expired; neither a   *)
(* sweep nor a refresh ends in a server error; and a refresh goes past    *)
(* its expiry check only with a record that has not expired.              *)
C25_SweepSafe ==
    [][/\ last'.op = "cleanup"
            => \A id \in DOMAIN tokens :
                  ~(tokens[id].expires_at < now)
                     => id \in DOMAIN tokens' /\ tokens'[id] = tokens[id]
       /\ last'.op \in {"cleanup", "refresh"} => last'.status # 500
       /\ last'.op = "refresh_lookup" => ~Expired(tokens, last'.arg)]_vars

(* C26: an access token minted at t0 with a lifetime of T seconds decodes *)
(* to its subject at every instant before t0 + T and is refused at every  *)
(* instant from t0 + T on, t0 + T included.                               *)
C26_ExpiryBoundary ==
    [][last'.op = "decode_access_token"
         => LET T == ACCESS_TOKEN_EXPIRE_MINUTES * 60
                t0 == last.access_token.exp - T
            IN IF last'.arg - t0 < T
               THEN last'.status = 200 /\ last'.n = last.access_token.sub
               ELSE last'.status = 401]_vars

(* C27: token verification fails closed.  A bearer token that is signed  *)
(* with another key, is no JWT, has expired or carries no subject is      *)
(* answered 401 by get_current_user and resolves to no identity; a        *)
(* request is served as an identity only when it presented a token the    *)
(* server signed for that identity and that still decodes; no request     *)
(* ends in a server error, and a refused one changes nothing.             *)
C27_FailsClosed ==
    [][/\ last'.op = "get_current_user"
            => LET b == last'.access_token IN
               /\ last'.status \in {200, 401}
               /\ (b.kind # "valid" \/ b.sub = None)
                     => (last'.status = 401 /\ last'.actor = None)
               /\ last'.status = 200
                     => /\ b.kind = "valid"
                        /\ last'.actor = b.sub
                        /\ b.sub \in minted
                        /\ b.sub \in DOMAIN users
       /\ last'.op \in {"read_me", "logout"}
            => /\ last'.status \in {200, 401}
               /\ last'.status = 200
                     => last'.actor \in minted /\ last'.actor \in DOMAIN users
               /\ last'.status = 401
                     => last'.actor = None /\ UNCHANGED <<users, clients, tokens>>]_vars

C27_Witness ==
    /\ last.op = "get_current_user"
    /\ last.status = 401
    /\ last.actor = None
    /\ last.access_token.kind = "bad_signature"
    /\ last.access_token.sub \in DOMAIN users
    /\ last.access_token.sub \in minted
    /\ last.access_token.sub # 1

(* C28, as stated: every password of 8 to 72 UTF-8 bytes is hashed, and  *)
(* verifies against its own hash, also when it has fewer than 8           *)
(* characters.                                                             *)
C28_RoundTripBytes ==
    [][/\ (/\ last'.op = "get_password_hash"
           /\ PwBytes(last'.arg) >= 8 /\ PwBytes(last'.arg) <= 72)
            => last'.status = 200
       /\ (/\ last'.op = "verify_password"
           /\ last'.arg[1] = last'.arg[2])
            => last'.n = 1]_vars

(* C28, amended: every password of at least 8 characters and at most 72   *)
(* UTF-8 bytes, free of NUL, is hashed and verifies against its own hash, *)
(* multi-byte characters included; a password of fewer than 8 characters  *)
(* is refused by the hasher whatever its byte length.                     *)
C28_RoundTripChars ==
    [][/\ last'.op = "get_password_hash"
            => IF PwChars(last'.arg) < 8
               THEN last'.status = 400
               ELSE (PwBytes(last'.arg) <= 72 /\ ~HasNul(last'.arg))
                       => (last'.status = 200 /\ last'.detail = "")
       /\ (/\ last'.op = "verify_password"
           /\ last'.arg[1] = last'.arg[2])
            => /\ PwChars(last'.arg[1]) >= 8
               /\ PwBytes(last'.arg[1]) <= 72
               /\ last'.n = 1]_vars

C28_Witness ==
    /\ last.op = "verify_password"
    /\ last.arg[1] = last.arg[2]
    /\ PwBytes(last.arg[1]) = 72
    /\ PwChars(last.arg[1]) < 72
    /\ last.n = 1

(* C29: the length policy is rejection, the same in both directions.  The *)
(* hasher refuses every password longer than 72 bytes and every password  *)
(* shorter than 8, with a ValueError and without a hash; verification     *)
(* answers false for every password longer than 72 bytes, whatever the    *)
(* hash, also the hash of its first 72 bytes.                             *)
C29_LengthPolicy ==
    [][/\ (/\ last'.op = "get_password_hash"
           /\ (PwBytes(last'.arg) > 72 \/ PwBytes(last'.arg) < 8 \/ PwChars(last'.arg) < 8))
            => /\ last'.status = 400
               /\ last'.detail \in {"Password too long (max 72 characters)",
                                     "Password too short (min 8 characters)"}
       /\ (last'.op = "verify_password" /\ PwBytes(last'.arg[1]) > 72)
            => last'.n = 0
       /\ (last'.op = "verify_password" /\ last'.n = 1)
            => get_password_hash_error(last'.arg[1]) = ""]_vars

C29_Witness ==
    /\ last.op = "verify_password"
    /\ PwBytes(last.arg[1]) > 72
    /\ First72(last.arg[1]) = last.arg[2]
    /\ last.n = 0

(* C30: the service starts only with a signing secret that is present,   *)
(* at least 32 characters long and not the placeholder.  Any other secret *)
(* ends the startup with an error, and until a startup has succeeded no   *)
(* request is served, so no token is minted or verified.                  *)
C30_FailFast ==
    [][/\ last'.op = "startup"
            => LET key == IF last'.arg[1] # NoKey THEN last'.arg[1] ELSE last'.arg[2] IN
               IF key # NoKey /\ KeyChars(key) >= 32 /\ key # Placeholder
               THEN last'.status = 200 /\ SECRET_KEY' = key
               ELSE /\ last'.status = 500
                    /\ last'.detail # ""
                    /\ SECRET_KEY' = NotStarted
                    /\ UNCHANGED <<users, clients, tokens, minted>>
       /\ (minted' # minted \/ last'.op \in {"register", "login", "read_me"})
            => /\ SECRET_KEY \notin {NotStarted, NoKey, Placeholder}
               /\ KeyChars(SECRET_KEY) >= 32]_vars

C30_Witness ==
    /\ last.op = "startup"
    /\ last.status = 500
    /\ last.arg = <<NoKey, "key-of-31-chars">>
    /\ SECRET_KEY = NotStarted
    /\ minted = {}
    /\ tokens = <<>>

----------------------------------------------------------------------------
(* C31: authorization failures are reported as forbidden, distinct from   *)
(* unauthorized.  On every dependency a route can name, a request whose   *)
(* token is valid and names a stored identity is answered 403 when that   *)
(* identity is inactive or its role is below the one the dependency       *)
(* requires, and 401 is answered only when the token does not decode, has *)
(* no subject, or names no stored identity.                               *)
RequiredRole(name) ==
    CASE name = "get_admin_user" -> ADMIN
      [] name = "get_premium_user" -> PREMIUM_USER
      [] OTHER -> BASIC_USER

Authenticated(token) ==
    /\ decode_access_token(token).ok
    /\ token.sub # None
    /\ get_user(users, token.sub) # None

C31_Forbidden ==
    [][last'.op \in Dependencies =>
         LET token == last'.access_token IN
         /\ (/\ Authenticated(token)
             /\ \/ users[token.sub].is_active # "true"
                \/ ~check_user_permissions(users[token.sub].role,
                                           RequiredRole(last'.op)))
               => last'.status = 403
         /\ last'.status = 401 => ~Authenticated(token)]_vars

----------------------------------------------------------------------------
(* C32: access tokens are not revocable.  A successful logout, logout_all *)
(* or revocation of a session leaves every unexpired access token of an   *)
(* identity that is still stored acceptable, and authorize accepts every  *)
(* unexpired access token of a stored identity as that identity, whatever *)
(* has become of its refresh tokens.                                      *)
SessionEnders == {"logout", "logout_all", "revoke_token"}

C32_NotRevocable ==
    [][/\ (last'.op \in SessionEnders /\ last'.status = 200)
          => \A u \in minted \cap DOMAIN users :
                /\ [kind |-> "valid", sub |-> u] \in Bearers'
                /\ u \in DOMAIN users'
       /\ (last'.op = "get_current_user" /\ Authenticated(last'.access_token))
          => /\ last'.status = 200
             /\ last'.actor = last'.access_token.sub]_vars

(* an access token accepted for an identity that logged out everywhere    *)
(* and holds no refresh token any more                                    *)
C32_Witness ==
    /\ last.op = "get_current_user"
    /\ last.status = 200
    /\ last.access_token.kind = "valid"
    /\ TokensOf(tokens, last.actor) = {}
    /\ \E t \in DOMAIN hist : hist[t].owner = last.actor /\ hist[t].logged_out_all

----------------------------------------------------------------------------
(* C33: a login sweeps after it has stored its token.  Right after every  *)
(* successful login the store holds no record of any identity whose       *)
(* expiry has passed, every record that had not expired is as it was, and *)
(* the refresh token just issued is a new record, present and active.     *)
C33_LoginSweeps ==
    [][(last'.op = "login" /\ last'.status = 200)
         => /\ \A id \in DOMAIN tokens' : ~(tokens'[id].expires_at < now')
            /\ \A id \in DOMAIN tokens :
                  ~Expired(tokens, id) => (id \in DOMAIN tokens' /\ tokens'[id] = tokens[id])
            /\ last'.n \notin DOMAIN tokens
            /\ last'.n \in DOMAIN tokens'
            /\ tokens'[last'.n].is_active = "true"
            /\ tokens'[last'.n].user_id = last'.access_token.sub
            /\ tokens'[last'.n].expires_at > now']_vars

(* a login after which the expired sessions of another identity are gone  *)
(* from the store and the session just opened is the only one left        *)
C33_Witness ==
    /\ last.op = "login"
    /\ last.status = 200
    /\ now > 0
    /\ DOMAIN tokens = {last.n}
    /\ \E t \in DOMAIN hist : hist[t].owner # last.access_token.sub

----------------------------------------------------------------------------
(* C34: the role guards agree with the role hierarchy.  For the role r of *)
(* an authenticated caller, get_admin_user admits r exactly when          *)
(* check_user_permissions(r, admin) is true and get_premium_user exactly  *)
(* when check_user_permissions(r, premium) is true; a caller that is not  *)
(* admitted is answered 403 and the route behind the guard changes        *)
(* nothing.                                                               *)
C34_GuardsAgree ==
    [][/\ (last'.op \in RoleGuards /\ Authenticated(last'.access_token))
          => LET r == users[last'.access_token.sub].role IN
             /\ (last'.status = 200) = check_user_permissions(r, RequiredRole(last'.op))
             /\ last'.status \in {200, 403}
       /\ (last'.op = "create_customer" /\ Authenticated(last'.access_token))
          => LET r == users[last'.access_token.sub].role IN
             /\ (last'.status = 200) = check_user_permissions(r, PREMIUM_USER)
             /\ last'.status \in {200, 403}
       /\ (last'.op = "promote_user" /\ last'.status \notin {401, 403})
          => check_user_permissions(users[last'.actor].role, ADMIN)
       /\ last'.status = 403 => UNCHANGED Same]_vars

(* a premium caller with a valid token turned away by the admin guard,    *)
(* after the premium route has admitted it and the admin                  *)
C34_Witness ==
    /\ last.op = "get_admin_user"
    /\ last.status = 403
    /\ Authenticated(last.access_token)
    /\ users[last.access_token.sub].role = PREMIUM_USER
    /\ \E c \in DOMAIN customers : customers[c].owner_id = last.access_token.sub
    /\ \E c \in DOMAIN customers : customers[c].owner_id = 1

----------------------------------------------------------------------------
(* C35: customers and notes are scoped to their owner.  A customer or     *)
(* note route called by identity A returns, changes, creates and removes  *)
(* only customers owned by A and notes under them; called with the id of  *)
(* a customer owned by someone else it answers 404 "Customer not found"   *)
(* and every customer of another owner and its notes stay as they were.   *)
CrmOps == {"list_customers", "get_customer", "update_customer", "delete_customer",
           "add_note", "list_notes", "get_note", "update_note", "delete_note"}

NoteOps == {"get_note", "update_note", "delete_note"}

Touched(old, new) ==
    {k \in DOMAIN old \cup DOMAIN new :
        ~(k \in DOMAIN old /\ k \in DOMAIN new /\ old[k] = new[k])}

----------------------------------------------------------------------------
(* C36: a deactivated identity obtains no new token pair.  While the      *)
(* active flag of an identity is not "true", a password login with its    *)
(* email, a refresh with one of its refresh tokens and a client login     *)
(* with its client are refused, return no access token and store no       *)
(* refresh token.                                                         *)
Deactivated(user_id) ==
    user_id \in DOMAIN users /\ users[user_id].is_active # "true"

C36_DeactivatedLockedOut ==
    [][(\/ /\ last'.op = "login"
           /\ Deactivated(get_user_by_email(users, last'.arg))
        \/ /\ last'.op = "refresh"
           /\ last'.arg \in DOMAIN tokens
           /\ Deactivated(tokens[last'.arg].user_id)
        \/ /\ last'.op = "oauth2_token"
           /\ \E c \in DOMAIN clients : /\ clients[c].client_id = last'.arg[1]
                                        /\ Deactivated(clients[c].user_id))
         => /\ last'.status # 200
            /\ last'.access_token = NoAccessToken
            /\ DOMAIN tokens' \subseteq DOMAIN tokens
            /\ nextTok' = nextTok]_vars

----------------------------------------------------------------------------
(* C37: logout_all ends every session even when a refresh races with it. *)
(* When a refresh of a token that was issued before a logout_all of its   *)
(* owner completes after that logout_all, the refresh token it has        *)
(* created is not an active record of the store.                          *)
C37_LogoutAllWins ==
    [][\A s \in Slots :
          (/\ rq[s].pc = "touch"
           /\ rq'[s].pc = "idle"
           /\ LoggedOutAll(rq[s].tok))
            => ~(/\ rq[s].new \in DOMAIN tokens'
                 /\ tokens'[rq[s].new].is_active = "true")]_vars

----------------------------------------------------------------------------
(* C38: a refresh keeps the session count constant, so whenever no        *)
(* refresh is in flight an identity holds at most as many active refresh  *)
(* tokens as it has made successful password and client-credentials       *)
(* logins.                                                                *)
Logins(user_id) ==
    Cardinality({t \in DOMAIN hist : hist[t].owner = user_id /\ hist[t].parent = None})

C38_SessionCount ==
    (\A s \in Slots : rq[s].pc = "idle")
      => \A u \in DOMAIN users :
            Cardinality(ActiveTokensOf(tokens, u)) <= Logins(u)

(* C39: every refresh-token row and every client row references a stored   *)
(* identity, and an access token whose identity has been deleted is       *)
(* answered 401                                                           *)
C39_NoOrphans ==
    /\ \A id \in DOMAIN tokens : tokens[id].user_id \in DOMAIN users
    /\ \A c \in DOMAIN clients : clients[c].user_id \in DOMAIN users
    /\ \A u \in minted \ DOMAIN users :
          get_current_user([kind |-> "valid", sub |-> u]).status = 401

====
